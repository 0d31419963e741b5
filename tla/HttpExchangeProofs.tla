-------------------------- MODULE HttpExchangeProofs --------------------------
(***************************************************************************)
(* Proofs about HttpExchange.                                              *)
(*                                                                         *)
(* First the table of servlets, for any paths, patterns and servlets and   *)
(* whatever fnmatch says fits.  Then the URLs: for every URL of the        *)
(* grammar the automaton of Uri::Create is followed through the text, part *)
(* by part, and so is it through the text that dump() writes of the Uri.   *)
(***************************************************************************)
EXTENDS HttpExchange, SequenceTheorems, WellFoundedInduction, TLAPS

Answers == Servlets \cup {NotFound}
Globs == [uri : Patterns, slt : Servlets]
CallKinds ==
  [op : {"add"}, uri : Uris, slt : Servlets] \cup [op : {"del"}, uri : Uris, slt : {NotFound}]
    \cup [op : {"addGlob"}, uri : Patterns, slt : Servlets]
    \cup [op : {"delGlob"}, uri : Patterns, slt : {NotFound}]

\* A set of numbers has a least one.
LEMMA LeastExists ==
  ASSUME NEW S \in SUBSET Nat, S # {}
  PROVE  \E m \in S : \A k \in S : m <= k
<1>1. PICK n \in S : \A k \in S : ~(<<k, n>> \in OpToRel(<, Nat))
  BY WFMin, NatLessThanWellFounded
<1>2. ASSUME NEW k \in S PROVE n <= k
  <2>1. k \in Nat /\ n \in Nat
    OBVIOUS
  <2>2. k < n => <<k, n>> \in {ss \in Nat \X Nat : ss[1] < ss[2]}
    BY <2>1
  <2>3. OpToRel(<, Nat) = {ss \in Nat \X Nat : ss[1] < ss[2]}
    BY Zenon DEF OpToRel
  <2>4. <<k, n>> \notin {ss \in Nat \X Nat : ss[1] < ss[2]}
    BY <1>1, <2>3, Zenon
  <2> QED BY <2>1, <2>2, <2>4
<1> QED BY <1>2

Least(S) == CHOOSE i \in S : \A k \in S : i <= k

LEMMA LeastChosen ==
  ASSUME NEW S \in SUBSET Nat, NEW m \in S, \A k \in S : m <= k
  PROVE  Least(S) = m
<1>1. Least(S) \in S /\ \A k \in S : Least(S) <= k
  BY DEF Least
<1>2. Least(S) \in Nat /\ m \in Nat /\ Least(S) <= m /\ m <= Least(S)
  BY <1>1
<1> QED BY <1>2

-----------------------------------------------------------------------------
\* The vector of patterns is the list of the calls that count, in their order: at
\* gives for each entry the call that made it.
GlobMap(globs, L, at) ==
  /\ globs \in Seq(Globs) /\ at \in [1 .. Len(globs) -> L]
  /\ \A k \in 1 .. Len(globs) : globs[k].uri = calls[at[k]].uri /\ globs[k].slt = calls[at[k]].slt
  /\ \A j, k \in 1 .. Len(globs) : j < k => at[j] < at[k]
  /\ \A i \in L : \E k \in 1 .. Len(globs) : at[k] = i

GlobsOK == \E at : GlobMap(m_globs, LastAddGlob, at)

\* A path has the servlet of the last call for it.
DatasOK ==
  /\ m_datas \in [Uris -> Answers]
  /\ \A u \in Uris : IF m_datas[u] = NotFound THEN \A i \in LastAdd : calls[i].uri # u
                     ELSE \E i \in LastAdd : calls[i].uri = u /\ calls[i].slt = m_datas[u]

CallsOK == calls \in Seq(CallKinds)

DispatchInv == CallsOK /\ DatasOK /\ GlobsOK

\* What a call adds to the history.
Recorded(op, uri, slt) ==
  /\ Len(calls') = Len(calls) + 1 /\ calls' \in Seq(CallKinds)
  /\ \A i \in 1 .. Len(calls) : calls'[i] = calls[i]
  /\ calls'[Len(calls) + 1].op = op /\ calls'[Len(calls) + 1].uri = uri
  /\ calls'[Len(calls) + 1].slt = slt

LEMMA CallRecorded ==
  ASSUME CallsOK, NEW c \in CallKinds, calls' = Append(calls, c)
  PROVE  Recorded(c.op, c.uri, c.slt)
BY AppendProperties DEF CallsOK, Recorded

\* Which calls are the last ones of a kind after one more.
LEMMA LastAfter ==
  ASSUME CallsOK, NEW op, NEW uri, NEW slt, Recorded(op, uri, slt), NEW ops, NEW i \in 1 .. Len(calls)
  PROVE  IsLast(i, ops)' <=> IsLast(i, ops) /\ ~(op \in ops /\ calls[i].uri = uri)
<1>1. Len(calls) \in Nat
  BY LenProperties DEF CallsOK
<1>2. /\ i \in 1 .. Len(calls) /\ calls'[i] = calls[i] /\ Len(calls') = Len(calls) + 1
      /\ \A k \in i + 1 .. Len(calls) : calls'[k] = calls[k]
      /\ calls'[Len(calls) + 1].op = op /\ calls'[Len(calls) + 1].uri = uri
  BY <1>1 DEF Recorded
<1>3. \A k : k \in i + 1 .. Len(calls) + 1 <=> k \in i + 1 .. Len(calls) \/ k = Len(calls) + 1
  BY <1>1
<1> QED BY <1>2, <1>3 DEF IsLast

LEMMA LastIsNew ==
  ASSUME CallsOK, NEW op, NEW uri, NEW slt, Recorded(op, uri, slt), NEW ops,
         NEW n, n = Len(calls) + 1
  PROVE  IsLast(n, ops)' <=> op \in ops
<1>1. Len(calls) \in Nat
  BY LenProperties DEF CallsOK
<1>2. \A k \in n + 1 .. Len(calls') : FALSE
  BY <1>1 DEF Recorded
<1>3. calls'[n].op = op
  BY DEF Recorded
<1> QED BY <1>2, <1>3 DEF IsLast

\* A call of another kind changes none; one for uri takes the place of earlier ones.
LEMMA LastAddAfter ==
  ASSUME CallsOK, NEW op, NEW uri, NEW slt, Recorded(op, uri, slt), NEW n, n = Len(calls) + 1
  PROVE  /\ op \notin {"add", "del"} => LastAdd' = LastAdd
         /\ op = "del" => LastAdd' = {i \in LastAdd : calls[i].uri # uri}
         /\ op = "add" => LastAdd' = {i \in LastAdd : calls[i].uri # uri} \cup {n}
<1>1. Len(calls) \in Nat /\ Len(calls') = n /\ calls'[n].op = op
  BY LenProperties DEF CallsOK, Recorded
<1>2. \A i : i \in 1 .. Len(calls') <=> i \in 1 .. Len(calls) \/ i = n
  BY <1>1
<1>3. \A i \in 1 .. Len(calls) : calls'[i] = calls[i] /\ i # n
  BY <1>1 DEF Recorded
<1>4. \A i \in 1 .. Len(calls) : IsLast(i, {"add", "del"})' <=>
          IsLast(i, {"add", "del"}) /\ ~(op \in {"add", "del"} /\ calls[i].uri = uri)
  BY LastAfter
<1>5. IsLast(n, {"add", "del"})' <=> op \in {"add", "del"}
  BY LastIsNew
<1>6. \A i : i \in LastAdd' <=>
          \/ i \in LastAdd /\ ~(op \in {"add", "del"} /\ calls[i].uri = uri)
          \/ i = n /\ op = "add"
  BY <1>1, <1>2, <1>3, <1>4, <1>5 DEF LastAdd
<1> QED BY <1>6

LEMMA LastAddGlobAfter ==
  ASSUME CallsOK, NEW op, NEW uri, NEW slt, Recorded(op, uri, slt), NEW n, n = Len(calls) + 1
  PROVE  /\ op \notin {"addGlob", "delGlob"} => LastAddGlob' = LastAddGlob
         /\ op = "delGlob" => LastAddGlob' = {i \in LastAddGlob : calls[i].uri # uri}
         /\ op = "addGlob" => LastAddGlob' = {i \in LastAddGlob : calls[i].uri # uri} \cup {n}
<1>1. Len(calls) \in Nat /\ Len(calls') = n /\ calls'[n].op = op
  BY LenProperties DEF CallsOK, Recorded
<1>2. \A i : i \in 1 .. Len(calls') <=> i \in 1 .. Len(calls) \/ i = n
  BY <1>1
<1>3. \A i \in 1 .. Len(calls) : calls'[i] = calls[i] /\ i # n
  BY <1>1 DEF Recorded
<1>4. \A i \in 1 .. Len(calls) : IsLast(i, {"addGlob", "delGlob"})' <=>
          IsLast(i, {"addGlob", "delGlob"}) /\ ~(op \in {"addGlob", "delGlob"} /\ calls[i].uri = uri)
  BY LastAfter
<1>5. IsLast(n, {"addGlob", "delGlob"})' <=> op \in {"addGlob", "delGlob"}
  BY LastIsNew
<1>6. \A i : i \in LastAddGlob' <=>
          \/ i \in LastAddGlob /\ ~(op \in {"addGlob", "delGlob"} /\ calls[i].uri = uri)
          \/ i = n /\ op = "addGlob"
  BY <1>1, <1>2, <1>3, <1>4, <1>5 DEF LastAddGlob
<1> QED BY <1>6

-----------------------------------------------------------------------------
\* Two calls that count have two patterns.
LEMMA OneCallEach ==
  ASSUME CallsOK, NEW i \in LastAddGlob, NEW j \in LastAddGlob, calls[i].uri = calls[j].uri
  PROVE  i = j
<1>1. Len(calls) \in Nat /\ i \in 1 .. Len(calls) /\ j \in 1 .. Len(calls)
  BY LenProperties DEF CallsOK, LastAddGlob
<1>2. /\ IsLast(i, {"addGlob", "delGlob"}) /\ calls[i].op = "addGlob"
      /\ IsLast(j, {"addGlob", "delGlob"}) /\ calls[j].op = "addGlob"
  BY DEF LastAddGlob
<1>3. ~(i < j) /\ ~(j < i)
  BY <1>1, <1>2 DEF IsLast
<1> QED BY <1>1, <1>3

LEMMA GlobRemoved ==
  ASSUME NEW q \in Seq(Globs), NEW i \in DOMAIN q
  PROVE  /\ RemoveAt(q, i) \in Seq(Globs) /\ Len(RemoveAt(q, i)) = Len(q) - 1
         /\ \A j \in 1 .. Len(q) - 1 :
              RemoveAt(q, i)[j] = IF j < i THEN q[j] ELSE q[j + 1]
<1> DEFINE a == SubSeq(q, 1, i - 1)  b == SubSeq(q, i + 1, Len(q))
<1>1. i \in 1 .. Len(q) /\ Len(q) \in Nat
  BY LenProperties
<1>2. /\ a \in Seq(Globs) /\ Len(a) = i - 1
      /\ \A j \in 1 .. i - 1 : a[j] = q[j]
  BY <1>1, SubSeqProperties
<1>3. /\ b \in Seq(Globs) /\ Len(b) = Len(q) - i
      /\ \A j \in 1 .. Len(q) - i : b[j] = q[i + j]
  BY <1>1, SubSeqProperties
<1>4. RemoveAt(q, i) = a \o b
  BY DEF RemoveAt
<1> HIDE DEF a, b
<1>5. /\ a \o b \in Seq(Globs) /\ Len(a \o b) = Len(a) + Len(b)
      /\ \A j \in 1 .. Len(a) + Len(b) :
           (a \o b)[j] = IF j <= Len(a) THEN a[j] ELSE b[j - Len(a)]
  BY <1>2, <1>3, ConcatProperties
<1>6. ASSUME NEW j \in 1 .. Len(q) - 1
      PROVE  (a \o b)[j] = IF j < i THEN q[j] ELSE q[j + 1]
  <2>1. CASE j < i
    BY SMTT(40), <1>1, <1>2, <1>3, <1>5, <2>1
  <2>2. CASE ~(j < i)
    <3>1. j \in 1 .. Len(a) + Len(b) /\ ~(j <= Len(a)) /\ j - Len(a) \in 1 .. Len(q) - i
      BY <1>1, <1>2, <1>3, <2>2
    <3>2. (a \o b)[j] = b[j - Len(a)] /\ b[j - Len(a)] = q[i + (j - Len(a))]
      BY <1>3, <1>5, <3>1
    <3>3. i + (j - Len(a)) = j + 1
      BY <1>1, <1>2
    <3> QED BY <2>2, <3>2, <3>3
  <2> QED BY <2>1, <2>2
<1> QED BY SMTT(40), <1>1, <1>2, <1>3, <1>4, <1>5, <1>6

\* delGlobServlet takes the entry of the pattern out, if there is one.
LEMMA WithoutMaps ==
  ASSUME CallsOK, NEW at, GlobMap(m_globs, LastAddGlob, at), NEW uri
  PROVE  \E b : GlobMap(WithoutGlob(m_globs, uri), {i \in LastAddGlob : calls[i].uri # uri}, b)
<1> DEFINE L == {i \in LastAddGlob : calls[i].uri # uri}
           there == {i \in 1 .. Len(m_globs) : m_globs[i].uri = uri}
<1>1. m_globs \in Seq(Globs) /\ Len(m_globs) \in Nat /\ DOMAIN m_globs = 1 .. Len(m_globs)
  BY LenProperties DEF GlobMap
<1>2. \A k \in 1 .. Len(m_globs) : /\ at[k] \in LastAddGlob /\ m_globs[k].uri = calls[at[k]].uri
                                    /\ m_globs[k].slt = calls[at[k]].slt
  BY DEF GlobMap
<1>3. CASE there = {}
  <2>1. WithoutGlob(m_globs, uri) = m_globs
    BY <1>3 DEF WithoutGlob
  <2>2. \A i \in LastAddGlob : calls[i].uri # uri
    BY <1>2, <1>3 DEF GlobMap
  <2>3. L = LastAddGlob
    BY <2>2
  <2> HIDE DEF L
  <2>4. GlobMap(WithoutGlob(m_globs, uri), L, at)
    BY <2>1, <2>3
  <2> QED BY <2>4 DEF L
<1>4. CASE there # {}
  <2> DEFINE r == CHOOSE i \in there : \A k \in there : i <= k
             q == RemoveAt(m_globs, r)
             b == [k \in 1 .. Len(m_globs) - 1 |-> IF k < r THEN at[k] ELSE at[k + 1]]
  <2>1. there \in SUBSET Nat
    BY <1>1
  <2>2. r \in there
    <3> HIDE DEF there
    <3> QED BY <1>4, <2>1, LeastExists
  <2>3. WithoutGlob(m_globs, uri) = q
    BY <1>4 DEF WithoutGlob
  <2> HIDE DEF r
  <2>4. r \in 1 .. Len(m_globs) /\ m_globs[r].uri = uri
    BY <2>2
  <2>5. /\ q \in Seq(Globs) /\ Len(q) = Len(m_globs) - 1
        /\ \A j \in 1 .. Len(m_globs) - 1 : q[j] = IF j < r THEN m_globs[j] ELSE m_globs[j + 1]
    BY <1>1, <2>4, GlobRemoved
  <2> HIDE DEF q, there
  <2>6. \A k \in 1 .. Len(m_globs) : k # r => calls[at[k]].uri # uri
    <3>1. ASSUME NEW k \in 1 .. Len(m_globs), k # r, calls[at[k]].uri = uri
          PROVE  FALSE
      <4>1. at[k] \in LastAddGlob /\ at[r] \in LastAddGlob /\ calls[at[r]].uri = uri
        BY <1>2, <2>4
      <4>2. at[k] = at[r]
        BY <3>1, <4>1, OneCallEach
      <4>3. k < r \/ r < k
        BY <1>1, <2>4, <3>1
      <4>4. at[k] \in Nat /\ at[r] \in Nat
        BY <4>1 DEF LastAddGlob
      <4> QED BY <2>4, <4>2, <4>3, <4>4 DEF GlobMap
    <3> QED BY <3>1
  <2>7. ASSUME NEW k \in 1 .. Len(q)
        PROVE  /\ b[k] \in L /\ q[k].uri = calls[b[k]].uri /\ q[k].slt = calls[b[k]].slt
    <3>1. CASE k < r
      <4>1. k \in 1 .. Len(m_globs) /\ k # r /\ b[k] = at[k] /\ q[k] = m_globs[k]
        BY <1>1, <2>4, <2>5, <3>1
      <4> QED BY <1>2, <2>6, <4>1
    <3>2. CASE ~(k < r)
      <4>1. k + 1 \in 1 .. Len(m_globs) /\ k + 1 # r /\ b[k] = at[k + 1] /\ q[k] = m_globs[k + 1]
        BY <1>1, <2>4, <2>5, <3>2
      <4> QED BY <1>2, <2>6, <4>1
    <3> QED BY <3>1, <3>2
  <2>8. b \in [1 .. Len(q) -> L]
    BY <2>5, <2>7
  <2>9. ASSUME NEW j \in 1 .. Len(q), NEW k \in 1 .. Len(q), j < k
        PROVE  b[j] < b[k]
    <3> DEFINE J == IF j < r THEN j ELSE j + 1
               K == IF k < r THEN k ELSE k + 1
    <3>1. J \in 1 .. Len(m_globs) /\ K \in 1 .. Len(m_globs) /\ J < K
      BY <1>1, <2>4, <2>5, <2>9
    <3>2. b[j] = at[J] /\ b[k] = at[K]
      BY <2>5
    <3> HIDE DEF J, K, b
    <3> QED BY <3>1, <3>2 DEF GlobMap
  <2>10. ASSUME NEW i \in L
         PROVE  \E k \in 1 .. Len(q) : b[k] = i
    <3>1. PICK k \in 1 .. Len(m_globs) : at[k] = i
      BY DEF GlobMap
    <3>2. k # r
      BY <1>2, <2>4, <3>1
    <3> DEFINE K == IF k < r THEN k ELSE k - 1
    <3>3. K \in 1 .. Len(q) /\ b[K] = at[k]
      BY <1>1, <2>4, <2>5, <3>2
    <3> HIDE DEF K, b, L
    <3> QED BY <3>1, <3>3
  <2> HIDE DEF b, L
  <2>11. GlobMap(q, L, b)
    BY <2>5, <2>7, <2>8, <2>9, <2>10 DEF GlobMap
  <2> QED BY <2>3, <2>11 DEF L
<1> QED BY <1>3, <1>4

-----------------------------------------------------------------------------
LEMMA DispatchStarts == DispatchInit => DispatchInv
<1> SUFFICES ASSUME DispatchInit PROVE DispatchInv
  OBVIOUS
<1>1. calls = <<>> /\ Len(calls) = 0 /\ LastAdd = {} /\ LastAddGlob = {}
  BY DEF DispatchInit, LastAdd, LastAddGlob
<1>2. CallsOK
  BY <1>1 DEF CallsOK
<1>3. DatasOK
  BY <1>1 DEF DispatchInit, DatasOK, Answers
<1>4. GlobMap(m_globs, LastAddGlob, <<>>)
  <2>1. m_globs = <<>> /\ Len(m_globs) = 0 /\ m_globs \in Seq(Globs)
    BY DEF DispatchInit
  <2>2. <<>> \in [1 .. Len(m_globs) -> LastAddGlob] /\ 1 .. Len(m_globs) = {}
    BY <2>1
  <2> QED BY <1>1, <2>1, <2>2 DEF GlobMap
<1> QED BY <1>2, <1>3, <1>4 DEF DispatchInv, GlobsOK

\* A call that leaves the vector alone leaves it right.
LEMMA GlobsStay ==
  ASSUME DispatchInv, NEW op \in {"add", "del"}, NEW uri, NEW slt, Recorded(op, uri, slt),
         m_globs' = m_globs
  PROVE  GlobsOK'
<1>1. PICK at : GlobMap(m_globs, LastAddGlob, at)
  BY DEF DispatchInv, GlobsOK
<1>2. LastAddGlob' = LastAddGlob
  BY LastAddGlobAfter DEF DispatchInv
<1>3. \A k \in 1 .. Len(m_globs) : calls'[at[k]] = calls[at[k]]
  BY <1>1 DEF GlobMap, LastAddGlob, Recorded
<1>4. GlobMap(m_globs, LastAddGlob, at)'
  BY <1>1, <1>2, <1>3 DEF GlobMap
<1> QED BY <1>4 DEF GlobsOK

\* A call that leaves the map alone leaves it right.
LEMMA DatasStay ==
  ASSUME DispatchInv, NEW op \in {"addGlob", "delGlob"}, NEW uri, NEW slt, Recorded(op, uri, slt),
         m_datas' = m_datas
  PROVE  DatasOK'
<1>1. LastAdd' = LastAdd
  BY LastAddAfter DEF DispatchInv
<1>2. \A i \in LastAdd : calls'[i] = calls[i]
  BY DEF LastAdd, Recorded
<1> QED BY <1>1, <1>2 DEF DispatchInv, DatasOK

LEMMA AddServletKeeps ==
  ASSUME DispatchInv, NEW u \in Uris, NEW s \in Servlets, addServlet(u, s)
  PROVE  DispatchInv'
<1> DEFINE c == [op |-> "add", uri |-> u, slt |-> s]
           n == Len(calls) + 1
<1>1. c \in CallKinds /\ c.op = "add" /\ c.uri = u /\ c.slt = s
  BY DEF CallKinds
<1>2. calls' = Append(calls, c) /\ m_datas' = [m_datas EXCEPT ![u] = s] /\ m_globs' = m_globs
  BY DEF addServlet, Called
<1> HIDE DEF c
<1>3. Recorded("add", u, s)
  BY <1>1, <1>2, CallRecorded DEF DispatchInv
<1>4. GlobsOK'
  BY <1>2, <1>3, GlobsStay
<1>5. LastAdd' = {i \in LastAdd : calls[i].uri # u} \cup {n}
  BY <1>3, LastAddAfter DEF DispatchInv
<1>6. /\ \A i \in LastAdd : calls'[i] = calls[i]
      /\ calls'[n].uri = u /\ calls'[n].slt = s
  BY <1>3 DEF LastAdd, Recorded
<1> HIDE DEF n
<1>7. DatasOK'
  <2>1. m_datas' \in [Uris -> Answers]
    BY <1>2 DEF DispatchInv, DatasOK, Answers
  <2>2. ASSUME NEW v \in Uris
        PROVE  IF m_datas'[v] = NotFound THEN \A i \in LastAdd' : calls'[i].uri # v
               ELSE \E i \in LastAdd' : calls'[i].uri = v /\ calls'[i].slt = m_datas'[v]
    <3>1. CASE v = u
      <4>1. m_datas'[v] = s /\ s # NotFound
        BY <1>2, <3>1, DispatchAssumption DEF DispatchInv, DatasOK
      <4> QED BY <1>5, <1>6, <3>1, <4>1
    <3>2. CASE v # u
      <4>1. m_datas'[v] = m_datas[v]
        BY <1>2, <3>2 DEF DispatchInv, DatasOK
      <4> QED BY <1>5, <1>6, <3>2, <4>1 DEF DispatchInv, DatasOK
    <3> QED BY <3>1, <3>2
  <2> QED BY <2>1, <2>2 DEF DatasOK
<1> QED BY <1>3, <1>4, <1>7 DEF DispatchInv, CallsOK, Recorded

LEMMA DelServletKeeps ==
  ASSUME DispatchInv, NEW u \in Uris, delServlet(u)
  PROVE  DispatchInv'
<1> DEFINE c == [op |-> "del", uri |-> u, slt |-> NotFound]
<1>1. c \in CallKinds /\ c.op = "del" /\ c.uri = u /\ c.slt = NotFound
  BY DEF CallKinds
<1>2. calls' = Append(calls, c) /\ m_datas' = [m_datas EXCEPT ![u] = NotFound] /\ m_globs' = m_globs
  BY DEF delServlet, Called
<1> HIDE DEF c
<1>3. Recorded("del", u, NotFound)
  BY <1>1, <1>2, CallRecorded DEF DispatchInv
<1>4. GlobsOK'
  BY <1>2, <1>3, GlobsStay
<1>5. LastAdd' = {i \in LastAdd : calls[i].uri # u}
  BY <1>3, LastAddAfter DEF DispatchInv
<1>6. \A i \in LastAdd : calls'[i] = calls[i]
  BY <1>3 DEF LastAdd, Recorded
<1>7. DatasOK'
  <2>1. m_datas' \in [Uris -> Answers]
    BY <1>2 DEF DispatchInv, DatasOK, Answers
  <2>2. ASSUME NEW v \in Uris
        PROVE  IF m_datas'[v] = NotFound THEN \A i \in LastAdd' : calls'[i].uri # v
               ELSE \E i \in LastAdd' : calls'[i].uri = v /\ calls'[i].slt = m_datas'[v]
    <3>1. CASE v = u
      BY <1>2, <1>5, <1>6, <3>1 DEF DispatchInv, DatasOK
    <3>2. CASE v # u
      <4>1. m_datas'[v] = m_datas[v]
        BY <1>2, <3>2 DEF DispatchInv, DatasOK
      <4> QED BY <1>5, <1>6, <3>2, <4>1 DEF DispatchInv, DatasOK
    <3> QED BY <3>1, <3>2
  <2> QED BY <2>1, <2>2 DEF DatasOK
<1> QED BY <1>3, <1>4, <1>7 DEF DispatchInv, CallsOK, Recorded

LEMMA DelGlobKeeps ==
  ASSUME DispatchInv, NEW p \in Patterns, delGlobServlet(p)
  PROVE  DispatchInv'
<1> DEFINE c == [op |-> "delGlob", uri |-> p, slt |-> NotFound]
           L == {i \in LastAddGlob : calls[i].uri # p}
<1>1. c \in CallKinds /\ c.op = "delGlob" /\ c.uri = p /\ c.slt = NotFound
  BY DEF CallKinds
<1>2. calls' = Append(calls, c) /\ m_globs' = WithoutGlob(m_globs, p) /\ m_datas' = m_datas
  BY DEF delGlobServlet, Called
<1> HIDE DEF c
<1>3. Recorded("delGlob", p, NotFound)
  BY <1>1, <1>2, CallRecorded DEF DispatchInv
<1>4. DatasOK'
  BY <1>2, <1>3, DatasStay
<1>5. PICK b : GlobMap(m_globs', L, b)
  BY <1>2, WithoutMaps DEF DispatchInv, GlobsOK
<1>6. LastAddGlob' = L
  BY <1>3, LastAddGlobAfter DEF DispatchInv
<1>7. \A i \in L : calls'[i] = calls[i]
  BY <1>3 DEF LastAddGlob, Recorded
<1> HIDE DEF L
<1>8. GlobMap(m_globs, LastAddGlob, b)'
  BY <1>5, <1>6, <1>7 DEF GlobMap
<1> QED BY <1>3, <1>4, <1>8 DEF DispatchInv, CallsOK, GlobsOK, Recorded

LEMMA AddGlobKeeps ==
  ASSUME DispatchInv, NEW p \in Patterns, NEW s \in Servlets, addGlobServlet(p, s)
  PROVE  DispatchInv'
<1> DEFINE c == [op |-> "addGlob", uri |-> p, slt |-> s]
           L == {i \in LastAddGlob : calls[i].uri # p}
           g == WithoutGlob(m_globs, p)
           e == [uri |-> p, slt |-> s]
           n == Len(calls) + 1
<1>1. c \in CallKinds /\ c.op = "addGlob" /\ c.uri = p /\ c.slt = s
  BY DEF CallKinds
<1>2. calls' = Append(calls, c) /\ m_globs' = Append(g, e) /\ m_datas' = m_datas
  BY DEF addGlobServlet, Called, WithGlob
<1>3. e \in Globs /\ e.uri = p /\ e.slt = s
  BY DEF Globs
<1> HIDE DEF c, e
<1>4. Recorded("addGlob", p, s)
  BY <1>1, <1>2, CallRecorded DEF DispatchInv
<1>5. DatasOK'
  BY <1>2, <1>4, DatasStay
<1>6. PICK b : GlobMap(g, L, b)
  BY <1>2, WithoutMaps DEF DispatchInv, GlobsOK
<1>7. LastAddGlob' = L \cup {n}
  BY <1>4, LastAddGlobAfter DEF DispatchInv
<1>8. /\ \A i \in L : calls'[i] = calls[i] /\ i < n /\ i \in Nat
      /\ calls'[n].uri = p /\ calls'[n].slt = s
  <2>1. Len(calls) \in Nat
    BY LenProperties DEF DispatchInv, CallsOK
  <2> QED BY <1>4, <2>1 DEF LastAddGlob, Recorded
<1> HIDE DEF L, g, n
<1>9. g \in Seq(Globs) /\ Len(g) \in Nat
  BY <1>6, LenProperties DEF GlobMap
<1>10. /\ m_globs' \in Seq(Globs) /\ Len(m_globs') = Len(g) + 1
       /\ \A k \in 1 .. Len(g) : m_globs'[k] = g[k]
       /\ m_globs'[Len(g) + 1] = e
  BY <1>2, <1>3, <1>9, AppendProperties
<1>d. PICK d : d = [k \in 1 .. Len(g) + 1 |-> IF k <= Len(g) THEN b[k] ELSE n]
  OBVIOUS
<1>11. /\ \A k \in 1 .. Len(g) : d[k] = b[k] /\ b[k] \in L
       /\ d[Len(g) + 1] = n /\ d \in [1 .. Len(m_globs') -> L \cup {n}]
  <2>1. \A k \in 1 .. Len(g) : b[k] \in L
    BY <1>6 DEF GlobMap
  <2> QED BY <1>9, <1>10, <1>d, <2>1
<1>12. \A k : k \in 1 .. Len(m_globs') <=> k \in 1 .. Len(g) \/ k = Len(g) + 1
  BY <1>9, <1>10
<1>13. \A k \in 1 .. Len(m_globs') :
          m_globs'[k].uri = calls'[d[k]].uri /\ m_globs'[k].slt = calls'[d[k]].slt
  BY SMTT(40), <1>3, <1>6, <1>8, <1>10, <1>11, <1>12 DEF GlobMap
<1>14. ASSUME NEW j \in 1 .. Len(m_globs'), NEW k \in 1 .. Len(m_globs'), j < k
       PROVE  d[j] < d[k]
  <2>1. j \in 1 .. Len(g)
    BY <1>9, <1>12, <1>14
  <2>2. CASE k \in 1 .. Len(g)
    BY <1>6, <1>11, <1>14, <2>1, <2>2 DEF GlobMap
  <2>3. CASE k = Len(g) + 1
    BY <1>8, <1>11, <2>1, <2>3
  <2> QED BY <1>12, <2>2, <2>3
<1>15. \A i \in L \cup {n} : \E k \in 1 .. Len(m_globs') : d[k] = i
  BY <1>6, <1>11, <1>12 DEF GlobMap
<1>16. GlobMap(m_globs, LastAddGlob, d)'
  BY <1>7, <1>10, <1>11, <1>13, <1>14, <1>15 DEF GlobMap
<1> QED BY <1>4, <1>5, <1>16 DEF DispatchInv, CallsOK, GlobsOK, Recorded

LEMMA DispatchKeeps == ASSUME DispatchInv, [DispatchNext]_dispatchVars PROVE DispatchInv'
<1>1. CASE DispatchNext
  BY <1>1, AddServletKeeps, DelServletKeeps, AddGlobKeeps, DelGlobKeeps DEF DispatchNext
<1>2. CASE UNCHANGED dispatchVars
  <2>1. m_datas' = m_datas /\ m_globs' = m_globs /\ calls' = calls
    BY <1>2 DEF dispatchVars
  <2>2. LastAdd' = LastAdd /\ LastAddGlob' = LastAddGlob
    BY <2>1 DEF LastAdd, LastAddGlob, IsLast
  <2>3. CallsOK' /\ DatasOK'
    BY <2>1, <2>2 DEF DispatchInv, CallsOK, DatasOK
  <2>4. PICK at : GlobMap(m_globs, LastAddGlob, at)
    BY DEF DispatchInv, GlobsOK
  <2>5. GlobMap(m_globs, LastAddGlob, at)'
    BY <2>1, <2>2, <2>4 DEF GlobMap
  <2> QED BY <2>3, <2>5 DEF DispatchInv, GlobsOK
<1> QED BY <1>1, <1>2

-----------------------------------------------------------------------------
\* A path without a servlet of its own: the first entry that fits is the one whose
\* call came first.
LEMMA GlobAnswer ==
  ASSUME DispatchInv, NEW p,
         NEW fits, fits = {k \in 1 .. Len(m_globs) : fnmatch(m_globs[k].uri, p)},
         NEW globs, globs = {i \in LastAddGlob : fnmatch(calls[i].uri, p)}
  PROVE  /\ fits = {} <=> globs = {}
         /\ fits # {} => m_globs[Least(fits)].slt
                         = calls[Least(globs)].slt
<1>1. PICK at : GlobMap(m_globs, LastAddGlob, at)
  BY DEF DispatchInv, GlobsOK
<1>2. Len(m_globs) \in Nat /\ fits \in SUBSET Nat /\ globs \in SUBSET Nat
  BY <1>1, LenProperties DEF GlobMap, LastAddGlob
<1>3. /\ \A k \in fits : at[k] \in globs /\ k \in 1 .. Len(m_globs)
                          /\ m_globs[k].slt = calls[at[k]].slt
      /\ \A i \in globs : \E k \in fits : at[k] = i
  BY <1>1 DEF GlobMap
<1>4. ASSUME fits # {}
      PROVE  m_globs[Least(fits)].slt
               = calls[Least(globs)].slt
  <2>1. PICK m \in fits : \A k \in fits : m <= k
    BY <1>2, <1>4, LeastExists
  <2>2. Least(fits) = m
    BY <1>2, <2>1, LeastChosen
  <2>3. ASSUME NEW i \in globs PROVE at[m] <= i
    <3>1. PICK k \in fits : at[k] = i
      BY <1>3
    <3>2. m = k \/ m < k
      BY <1>2, <2>1
    <3>3. at[m] \in Nat /\ at[k] \in Nat
      BY <1>2, <1>3
    <3>4. m < k => at[m] < at[k]
      BY <1>1, <1>3 DEF GlobMap
    <3> QED BY <3>1, <3>2, <3>3, <3>4
  <2>4. Least(globs) = at[m]
    BY <1>2, <1>3, <2>3, LeastChosen
  <2>5. m_globs[m].slt = calls[at[m]].slt
    BY <1>3
  <2> QED BY <2>2, <2>4, <2>5, Zenon
<1> QED BY <1>3, <1>4

\* A path with a servlet of its own.
LEMMA ExactAnswer ==
  ASSUME DispatchInv, NEW p, NEW exact, exact = {i \in LastAdd : calls[i].uri = p}
  PROVE  /\ p \in Uris /\ m_datas[p] # NotFound => exact # {} /\
              calls[Least(exact)].slt = m_datas[p]
         /\ ~(p \in Uris /\ m_datas[p] # NotFound) => exact = {}
<1>1. /\ Len(calls) \in Nat /\ exact \in SUBSET Nat /\ \A i \in exact : i \in 1 .. Len(calls)
  BY LenProperties DEF DispatchInv, CallsOK, LastAdd
<1>2. ASSUME p \in Uris, m_datas[p] # NotFound
      PROVE  exact # {} /\ calls[Least(exact)].slt = m_datas[p]
  <2>1. PICK m \in exact : calls[m].slt = m_datas[p]
    BY <1>2 DEF DispatchInv, DatasOK
  <2>2. ASSUME NEW k \in exact PROVE m <= k
    <3>1. /\ IsLast(m, {"add", "del"}) /\ IsLast(k, {"add", "del"})
          /\ calls[m].uri = calls[k].uri /\ m \in 1 .. Len(calls) /\ k \in 1 .. Len(calls)
      BY <1>1 DEF LastAdd
    <3>2. ~(k < m)
      BY <1>1, <3>1 DEF IsLast
    <3> QED BY <1>1, <3>2
  <2>3. Least(exact) = m
    BY <1>1, <2>2, LeastChosen
  <2> QED BY <2>1, <2>3
<1>3. ASSUME ~(p \in Uris /\ m_datas[p] # NotFound)
      PROVE  exact = {}
  <2>1. ASSUME NEW i \in exact PROVE p \in Uris
    <3>1. calls[i] \in CallKinds /\ calls[i].op = "add" /\ calls[i].uri = p
      BY <1>1, ElementOfSeq DEF DispatchInv, CallsOK, LastAdd
    <3> QED BY <3>1 DEF CallKinds
  <2> QED BY <1>3, <2>1 DEF DispatchInv, DatasOK
<1> QED BY <1>2, <1>3

LEMMA DispatchAnswers == DispatchInv => DispatchFollowsCalls
<1>1. ASSUME DispatchInv, NEW p \in Paths
      PROVE  getMatchedServlet(p) = Expected(p)
  <2> DEFINE own == p \in Uris /\ m_datas[p] # NotFound
  <2>f. PICK fits : fits = {k \in 1 .. Len(m_globs) : fnmatch(m_globs[k].uri, p)}
    OBVIOUS
  <2>g. PICK globs : globs = {i \in LastAddGlob : fnmatch(calls[i].uri, p)}
    OBVIOUS
  <2>e. PICK exact : exact = {i \in LastAdd : calls[i].uri = p}
    OBVIOUS
  <2>1. getMatchedServlet(p) =
          IF own THEN m_datas[p]
          ELSE IF fits # {} THEN m_globs[Least(fits)].slt
          ELSE NotFound
    BY <2>f DEF getMatchedServlet, Least
  <2>2. Expected(p) =
          IF exact # {} THEN calls[Least(exact)].slt
          ELSE IF globs # {} THEN calls[Least(globs)].slt
          ELSE NotFound
    <3>1. Expected(p) =
            IF {i \in LastAdd : calls[i].uri = p} # {}
            THEN calls[CHOOSE i \in {j \in LastAdd : calls[j].uri = p} :
                         \A k \in {j \in LastAdd : calls[j].uri = p} : i <= k].slt
            ELSE IF {i \in LastAddGlob : fnmatch(calls[i].uri, p)} # {}
            THEN calls[CHOOSE i \in {j \in LastAddGlob : fnmatch(calls[j].uri, p)} :
                         \A k \in {j \in LastAddGlob : fnmatch(calls[j].uri, p)} : i <= k].slt
            ELSE NotFound
      BY Zenon DEF Expected
    <3> QED BY <2>e, <2>g, <3>1, Zenon DEF Least
  <2>3. /\ own => exact # {} /\ calls[Least(exact)].slt = m_datas[p]
        /\ ~own => exact = {}
    BY <1>1, <2>e, ExactAnswer
  <2>4. /\ fits = {} <=> globs = {}
        /\ fits # {} => m_globs[Least(fits)].slt
                        = calls[Least(globs)].slt
    BY <1>1, <2>f, <2>g, GlobAnswer
  <2> HIDE DEF own
  <2> QED BY <2>1, <2>2, <2>3, <2>4
<1> QED BY <1>1 DEF DispatchFollowsCalls

\* The table answers every path as the history of the calls says (addServlet,
\* delServlet, addGlobServlet, delGlobServlet, getMatchedServlet), after any number
\* of calls in any order.
THEOREM DispatchFollowsCallsHolds == DispatchSpec => []DispatchFollowsCalls
BY DispatchStarts, DispatchKeeps, DispatchAnswers, PTL DEF DispatchSpec

\* The same of the table of a server that reads requests between the calls.
THEOREM DispatchFollowsCallsInExchange == Spec => []DispatchFollowsCalls
<1>1. Init => DispatchInv
  BY DispatchStarts DEF Init
<1>2. DispatchInv /\ [Next]_vars => DispatchInv'
  <2>1. [Next]_vars => [DispatchNext]_dispatchVars
    BY DEF Next, vars
  <2> QED BY <2>1, DispatchKeeps
<1> QED BY <1>1, <1>2, DispatchAnswers, PTL DEF Spec

-----------------------------------------------------------------------------
\* The loop of Create: m[p] is the state behind p characters.
Runs(m, text, lo, hi) == \A p \in lo + 1 .. hi : m[p] = U!TakeChar(m[p - 1], text, p)

\* The turns of a piece of the loop that begins with r.
Turns(f, text, r, lo, hi) ==
  f = [k \in lo .. hi |-> IF k = lo THEN r ELSE U!TakeChar(f[k - 1], text, k)]

LEMMA TurnsExist ==
  ASSUME NEW text, NEW r, NEW lo \in Nat, NEW n \in Nat, lo <= n
  PROVE  \E f : Turns(f, text, r, lo, n)
<1> DEFINE Bad == {k \in Nat : lo <= k /\ ~ \E f : Turns(f, text, r, lo, k)}
<1>1. SUFFICES ASSUME Bad # {} PROVE FALSE
  OBVIOUS
<1>2. PICK m \in Bad : \A k \in Bad : m <= k
  <2> HIDE DEF Bad
  <2>1. Bad \in SUBSET Nat
    BY DEF Bad
  <2> QED BY <1>1, <2>1, LeastExists
<1>3. CASE m = lo
  <2>1. Turns([k \in lo .. lo |-> r], text, r, lo, lo)
    BY DEF Turns
  <2> QED BY <1>3, <2>1
<1>4. CASE m # lo
  <2>1. m - 1 \in Nat /\ lo <= m - 1 /\ m - 1 \notin Bad
    BY <1>2, <1>4
  <2>2. PICK g : Turns(g, text, r, lo, m - 1)
    BY <2>1
  <2> DEFINE new == U!TakeChar(g[m - 1], text, m)
             h == [k \in lo .. m |-> IF k = m THEN new ELSE g[k]]
  <2>3. ASSUME NEW k \in lo .. m
        PROVE  h[k] = IF k = lo THEN r ELSE U!TakeChar(h[k - 1], text, k)
    <3>1. CASE k = m
      <4>1. h[k - 1] = g[m - 1] /\ h[k] = new
        BY <1>4, <3>1
      <4> QED BY <1>4, <3>1, <4>1
    <3>2. CASE k # m /\ k = lo
      <4>1. h[k] = g[lo]
        BY <3>2
      <4> QED BY <2>1, <2>2, <3>2, <4>1 DEF Turns
    <3>3. CASE k # m /\ k # lo
      <4>1. h[k] = g[k] /\ h[k - 1] = g[k - 1] /\ k \in lo .. m - 1
        BY <3>3
      <4> HIDE DEF h
      <4> QED BY <2>2, <3>3, <4>1 DEF Turns
    <3> QED BY <3>1, <3>2, <3>3
  <2>5. Turns(h, text, r, lo, m)
    <3>1. h = [k \in lo .. m |-> h[k]]
      OBVIOUS
    <3> HIDE DEF h
    <3> QED BY <2>3, <3>1 DEF Turns
  <2> QED BY <2>5
<1> QED BY <1>3, <1>4

LEMMA TurnsRun ==
  ASSUME NEW text, NEW r, NEW lo \in Nat, NEW n \in Nat, lo <= n, NEW f, Turns(f, text, r, lo, n)
  PROVE  f[lo] = r /\ Runs(f, text, lo, n)
<1>1. f[lo] = r
  BY DEF Turns
<1>2. ASSUME NEW k \in lo + 1 .. n
      PROVE  f[k] = U!TakeChar(f[k - 1], text, k)
  <2>1. k \in lo .. n /\ k # lo
    OBVIOUS
  <2> QED BY <2>1 DEF Turns
<1> QED BY <1>1, <1>2 DEF Runs

\* Two runs that begin alike go on alike.
LEMMA RunsAgree ==
  ASSUME NEW text, NEW lo \in Nat, NEW hi \in Nat, lo <= hi, NEW f, NEW g,
         Runs(f, text, lo, hi), Runs(g, text, lo, hi), f[lo] = g[lo]
  PROVE  f[hi] = g[hi]
<1> DEFINE Bad == {k \in Nat : lo <= k /\ k <= hi /\ f[k] # g[k]}
<1>1. SUFFICES ASSUME Bad # {} PROVE FALSE
  OBVIOUS
<1>2. PICK m \in Bad : \A k \in Bad : m <= k
  <2> HIDE DEF Bad
  <2>1. Bad \in SUBSET Nat
    BY DEF Bad
  <2> QED BY <1>1, <2>1, LeastExists
<1>3. m # lo
  BY <1>2
<1>4. m - 1 \in Nat /\ m - 1 \notin Bad /\ m \in lo + 1 .. hi /\ lo <= m - 1
  BY <1>2, <1>3
<1>5. f[m - 1] = g[m - 1]
  BY <1>4
<1> HIDE DEF Bad
<1>6. f[m] = g[m]
  BY <1>4, <1>5 DEF Runs
<1> QED BY <1>2, <1>6 DEF Bad

-----------------------------------------------------------------------------
\* The ends of the pieces of a loop of n turns, and the state at them.
EndOf(j, n) == IF U!Piece * j < n THEN U!Piece * j ELSE n
LastTurn(text, r, lo, hi) == LET f == CHOOSE f : Turns(f, text, r, lo, hi) IN f[hi]
Pieces(g, text, r, n, N) ==
  g = [j \in 0 .. N |->
        IF j = 0 THEN r
        ELSE CHOOSE x \in {LastTurn(text, h, EndOf(j - 1, n), EndOf(j, n)) : h \in {g[j - 1]}} : TRUE]

LEMMA PiecesExist ==
  ASSUME NEW text, NEW r, NEW n \in Nat, NEW N \in Nat
  PROVE  \E g : Pieces(g, text, r, n, N)
<1> DEFINE Next1(j, x) == CHOOSE y \in {LastTurn(text, h, EndOf(j - 1, n), EndOf(j, n)) : h \in {x}} : TRUE
           Good(g, k) == g = [j \in 0 .. k |-> IF j = 0 THEN r ELSE Next1(j, g[j - 1])]
           Bad == {k \in Nat : ~ \E g : Good(g, k)}
<1>1. \A k : \A g : Good(g, k) <=> Pieces(g, text, r, n, k)
  BY DEF Pieces
<1> HIDE DEF Next1, Good
<1>2. SUFFICES ASSUME Bad # {} PROVE FALSE
  BY <1>1
<1>3. PICK m \in Bad : m \in Nat /\ \A k \in Bad : m <= k
  <2> HIDE DEF Bad
  <2>1. Bad \in SUBSET Nat
    BY DEF Bad
  <2> QED BY <1>2, <2>1, LeastExists
<1>4. CASE m = 0
  <2>1. Good([j \in 0 .. 0 |-> r], 0)
    BY DEF Good
  <2> QED BY <1>3, <1>4, <2>1
<1>5. CASE m # 0
  <2>1. m - 1 \in Nat /\ m - 1 \notin Bad
    <3> HIDE DEF Bad
    <3> QED BY <1>3, <1>5
  <2>2. PICK g : Good(g, m - 1)
    BY <2>1
  <2> DEFINE h == [k \in 0 .. m |-> IF k = m THEN Next1(m, g[m - 1]) ELSE g[k]]
  <2>3. ASSUME NEW k \in 0 .. m
        PROVE  h[k] = IF k = 0 THEN r ELSE Next1(k, h[k - 1])
    <3>1. CASE k = m
      <4>1. h[k - 1] = g[m - 1] /\ h[k] = Next1(m, g[m - 1])
        BY <1>5, <3>1
      <4> QED BY <1>5, <3>1, <4>1
    <3>2. CASE k # m /\ k = 0
      <4>1. h[k] = g[0]
        BY <3>2
      <4> QED BY <2>1, <2>2, <3>2, <4>1 DEF Good
    <3>3. CASE k # m /\ k # 0
      <4>1. h[k] = g[k] /\ h[k - 1] = g[k - 1] /\ k \in 0 .. m - 1
        BY <3>3
      <4> HIDE DEF h
      <4> QED BY <2>2, <3>3, <4>1 DEF Good
    <3> QED BY <3>1, <3>2, <3>3
  <2>4. Good(h, m)
    <3>1. h = [k \in 0 .. m |-> h[k]]
      OBVIOUS
    <3> HIDE DEF h
    <3> QED BY <2>3, <3>1 DEF Good
  <2> QED BY <1>3, <2>4
<1> QED BY <1>4, <1>5

LEMMA EndsGrow ==
  ASSUME NEW n \in Nat, NEW j \in Nat \ {0}
  PROVE  /\ EndOf(0, n) = 0 /\ EndOf((n \div U!Piece) + 1, n) = n /\ (n \div U!Piece) + 1 \in Nat
         /\ EndOf(j - 1, n) \in Nat /\ EndOf(j, n) \in Nat /\ EndOf(j - 1, n) <= EndOf(j, n)
         /\ EndOf(j, n) <= n
<1>1. n \div 12 \in Nat /\ n < 12 * ((n \div 12) + 1)
  OBVIOUS
<1> QED BY <1>1 DEF EndOf, U!Piece

LEMMA LastTurnIs ==
  ASSUME NEW text, NEW m, NEW lo \in Nat, NEW hi \in Nat, lo <= hi, Runs(m, text, lo, hi)
  PROVE  LastTurn(text, m[lo], lo, hi) = m[hi]
<1> DEFINE f == CHOOSE f : Turns(f, text, m[lo], lo, hi)
<1>1. Turns(f, text, m[lo], lo, hi)
  BY TurnsExist
<1> HIDE DEF f
<1>2. f[lo] = m[lo] /\ Runs(f, text, lo, hi)
  BY <1>1, TurnsRun
<1>3. f[hi] = m[hi]
  BY <1>2, RunsAgree
<1> QED BY <1>3 DEF LastTurn, f

\* The loop is cut into pieces, but runs like one that is not.
LEMMA ParsedRuns ==
  ASSUME NEW X, NEW text \in Seq(X)
  PROVE  \E m : /\ m[0] = U!Run(U!NewUri, U!Null, <<"start">>)
                /\ Runs(m, text, 0, Len(text) + 1)
                /\ U!Parsed(text) = m[Len(text) + 1]
<1> DEFINE n == Len(text) + 1
           first == U!Run(U!NewUri, U!Null, <<"start">>)
           N == (n \div U!Piece) + 1
           g == CHOOSE g : Pieces(g, text, first, n, N)
<1>1. U!Parsed(text) = g[N]
  BY DEF U!Parsed, U!Loop, Turns, EndOf, Pieces, LastTurn
<1>2. n \in Nat /\ N \in Nat
  BY EndsGrow
<1> HIDE DEF n, N, first
<1>3. Pieces(g, text, first, n, N)
  BY <1>2, PiecesExist
<1> HIDE DEF g
<1>4. PICK m : Turns(m, text, first, 0, n)
  <2>1. 0 \in Nat /\ 0 <= n
    BY <1>2
  <2> QED BY <1>2, <2>1, TurnsExist
<1>5. m[0] = first /\ Runs(m, text, 0, n)
  BY <1>2, <1>4, TurnsRun
<1> DEFINE Bad == {j \in 0 .. N : g[j] # m[EndOf(j, n)]}
<1>6. Bad = {}
  <2>1. SUFFICES ASSUME Bad # {} PROVE FALSE
    OBVIOUS
  <2>2. PICK j \in Bad : \A k \in Bad : j <= k
    <3>1. Bad \in SUBSET Nat
      OBVIOUS
    <3> HIDE DEF Bad
    <3> QED BY <2>1, <3>1, LeastExists
  <2>3. CASE j = 0
    <3>1. g[0] = first
      BY <1>2, <1>3 DEF Pieces
    <3>2. EndOf(0, n) = 0
      BY <1>2, EndsGrow
    <3> QED BY <1>5, <2>2, <2>3, <3>1, <3>2
  <2>4. CASE j # 0
    <3>1. j \in Nat \ {0} /\ j - 1 \in 0 .. N /\ j - 1 \notin Bad
      BY <1>2, <2>2, <2>4
    <3> DEFINE lo == EndOf(j - 1, n)
               hi == EndOf(j, n)
               last == LastTurn(text, g[j - 1], lo, hi)
    <3>2. g[j] = CHOOSE x \in {LastTurn(text, h, lo, hi) : h \in {g[j - 1]}} : TRUE
      BY <1>3, <2>2, <2>4 DEF Pieces
    <3>3. {LastTurn(text, h, lo, hi) : h \in {g[j - 1]}} = {last}
      OBVIOUS
    <3>4. g[j - 1] = m[lo]
      BY <3>1
    <3>5. lo \in Nat /\ hi \in Nat /\ lo <= hi /\ hi <= n
      BY <1>2, <3>1, EndsGrow
    <3>6. Runs(m, text, lo, hi)
      BY <1>2, <1>5, <3>5 DEF Runs
    <3>7. last = m[hi]
      <4> HIDE DEF lo, hi
      <4> QED BY <3>4, <3>5, <3>6, LastTurnIs
    <3> HIDE DEF last, lo, hi
    <3>8. g[j] = m[hi]
      BY <3>2, <3>3, <3>7
    <3> QED BY <2>2, <3>8 DEF hi
  <2> QED BY <2>3, <2>4
<1>7. N \in 0 .. N /\ EndOf(N, n) = n
  BY <1>2, EndsGrow DEF N
<1>8. g[N] = m[n]
  BY <1>6, <1>7
<1> QED BY <1>1, <1>5, <1>8 DEF n, first

-----------------------------------------------------------------------------
\* The actions of a transition, one by one.
Acted(w, m, acts, text, p, n) ==
  w = [k \in 0 .. n |->
        IF k = 0 THEN m
        ELSE IF w[k - 1].at[1] = "throw" THEN w[k - 1] ELSE U!Act(w[k - 1], acts[k], text, p)]

LEMMA ActedExists ==
  ASSUME NEW m, NEW acts, NEW text, NEW p, NEW n \in Nat
  PROVE  \E w : Acted(w, m, acts, text, p, n)
<1> DEFINE Next1(k, x) == IF x.at[1] = "throw" THEN x ELSE U!Act(x, acts[k], text, p)
           Good(g, k) == g = [j \in 0 .. k |-> IF j = 0 THEN m ELSE Next1(j, g[j - 1])]
           Bad == {k \in Nat : ~ \E g : Good(g, k)}
<1>1. \A k : \A g : Good(g, k) <=> Acted(g, m, acts, text, p, k)
  BY DEF Acted
<1> HIDE DEF Next1, Good
<1>2. SUFFICES ASSUME Bad # {} PROVE FALSE
  BY <1>1
<1>3. PICK x \in Bad : x \in Nat /\ \A k \in Bad : x <= k
  <2> HIDE DEF Bad
  <2>1. Bad \in SUBSET Nat
    BY DEF Bad
  <2> QED BY <1>2, <2>1, LeastExists
<1>4. CASE x = 0
  <2>1. Good([j \in 0 .. 0 |-> m], 0)
    BY DEF Good
  <2> QED BY <1>3, <1>4, <2>1
<1>5. CASE x # 0
  <2>1. x - 1 \in Nat /\ x - 1 \notin Bad
    <3> HIDE DEF Bad
    <3> QED BY <1>3, <1>5
  <2>2. PICK g : Good(g, x - 1)
    BY <2>1
  <2> DEFINE h == [k \in 0 .. x |-> IF k = x THEN Next1(x, g[x - 1]) ELSE g[k]]
  <2>3. ASSUME NEW k \in 0 .. x
        PROVE  h[k] = IF k = 0 THEN m ELSE Next1(k, h[k - 1])
    <3>1. CASE k = x
      <4>1. h[k - 1] = g[x - 1] /\ h[k] = Next1(x, g[x - 1])
        BY <1>5, <3>1
      <4> QED BY <1>5, <3>1, <4>1
    <3>2. CASE k # x /\ k = 0
      <4>1. h[k] = g[0]
        BY <3>2
      <4> QED BY <2>1, <2>2, <3>2, <4>1 DEF Good
    <3>3. CASE k # x /\ k # 0
      <4>1. h[k] = g[k] /\ h[k - 1] = g[k - 1] /\ k \in 0 .. x - 1
        BY <3>3
      <4> HIDE DEF h
      <4> QED BY <2>2, <3>3, <4>1 DEF Good
    <3> QED BY <3>1, <3>2, <3>3
  <2>4. Good(h, x)
    <3>1. h = [k \in 0 .. x |-> h[k]]
      OBVIOUS
    <3> HIDE DEF h
    <3> QED BY <2>3, <3>1 DEF Good
  <2> QED BY <1>3, <2>4
<1> QED BY <1>4, <1>5

LEMMA ActedRound ==
  ASSUME NEW w, NEW m, NEW acts, NEW text, NEW p, NEW n \in Nat, Acted(w, m, acts, text, p, n)
  PROVE  /\ w[0] = m
         /\ \A k \in 1 .. n : w[k] = IF w[k - 1].at[1] = "throw" THEN w[k - 1]
                                     ELSE U!Act(w[k - 1], acts[k], text, p)
<1>1. w[0] = m
  BY DEF Acted
<1>2. ASSUME NEW k \in 1 .. n
      PROVE  w[k] = IF w[k - 1].at[1] = "throw" THEN w[k - 1] ELSE U!Act(w[k - 1], acts[k], text, p)
  <2>1. k \in 0 .. n /\ k # 0
    OBVIOUS
  <2> QED BY <2>1 DEF Acted
<1> QED BY <1>1, <1>2

LEMMA RunActsIs ==
  ASSUME NEW m, NEW X, NEW acts \in Seq(X), NEW text, NEW p
  PROVE  \E w : Acted(w, m, acts, text, p, Len(acts)) /\ U!RunActs(m, acts, text, p) = w[Len(acts)]
<1> DEFINE w == CHOOSE w : Acted(w, m, acts, text, p, Len(acts))
<1>1. Acted(w, m, acts, text, p, Len(acts))
  BY ActedExists
<1>2. U!RunActs(m, acts, text, p) = w[Len(acts)]
  BY DEF U!RunActs, Acted
<1> HIDE DEF w
<1> QED BY <1>1, <1>2

\* No action, and one more.
LEMMA ActsNone == ASSUME NEW m, NEW text, NEW p PROVE U!RunActs(m, <<>>, text, p) = m
<1>1. PICK w : Acted(w, m, <<>>, text, p, 0) /\ U!RunActs(m, <<>>, text, p) = w[0]
  <2>1. <<>> \in Seq({}) /\ Len(<<>>) = 0
    OBVIOUS
  <2> QED BY <2>1, RunActsIs
<1> QED BY <1>1, ActedRound

LEMMA ActsAppend ==
  ASSUME NEW m, NEW X, NEW acts \in Seq(X), NEW a \in X, NEW text, NEW p
  PROVE  LET w == U!RunActs(m, acts, text, p)
         IN U!RunActs(m, Append(acts, a), text, p)
              = IF w.at[1] = "throw" THEN w ELSE U!Act(w, a, text, p)
<1> DEFINE n == Len(acts)
           more == Append(acts, a)
<1>1. /\ more \in Seq(X) /\ Len(more) = n + 1 /\ n \in Nat /\ more[n + 1] = a
      /\ \A k \in 1 .. n : more[k] = acts[k]
  OBVIOUS
<1> HIDE DEF more
<1>2. PICK v : Acted(v, m, acts, text, p, n) /\ U!RunActs(m, acts, text, p) = v[n]
  BY RunActsIs
<1>3. PICK w : Acted(w, m, more, text, p, n + 1) /\ U!RunActs(m, more, text, p) = w[n + 1]
  BY <1>1, RunActsIs
<1> HIDE DEF n
<1> DEFINE Bad == {k \in 0 .. n : v[k] # w[k]}
<1>4. Bad = {}
  <2>1. SUFFICES ASSUME Bad # {} PROVE FALSE
    OBVIOUS
  <2>2. PICK k \in Bad : k \in Nat /\ \A j \in Bad : k <= j
    <3>1. Bad \in SUBSET Nat
      OBVIOUS
    <3> HIDE DEF Bad
    <3> QED BY <2>1, <3>1, LeastExists
  <2>3. CASE k = 0
    <3>1. v[0] = m /\ w[0] = m
      BY <1>1, <1>2, <1>3, ActedRound
    <3> QED BY <2>2, <2>3, <3>1
  <2>4. CASE k # 0
    <3>1. k \in 1 .. n /\ k \in 1 .. n + 1 /\ k - 1 \in 0 .. n /\ k - 1 \notin Bad
      BY <1>1, <2>2, <2>4
    <3>2. v[k - 1] = w[k - 1] /\ more[k] = acts[k]
      BY <1>1, <3>1
    <3>3. v[k] = IF v[k - 1].at[1] = "throw" THEN v[k - 1] ELSE U!Act(v[k - 1], acts[k], text, p)
      BY <1>1, <1>2, <3>1, ActedRound
    <3>4. w[k] = IF w[k - 1].at[1] = "throw" THEN w[k - 1] ELSE U!Act(w[k - 1], more[k], text, p)
      <4>1. n + 1 \in Nat
        BY <1>1
      <4> QED BY <1>3, <3>1, <4>1, ActedRound
    <3> QED BY <2>2, <3>2, <3>3, <3>4
  <2> QED BY <2>3, <2>4
<1>5. v[n] = w[n]
  BY <1>1, <1>4
<1>6. w[n + 1] = IF w[n].at[1] = "throw" THEN w[n] ELSE U!Act(w[n], more[n + 1], text, p)
  <2>1. n + 1 \in Nat /\ n + 1 \in 1 .. n + 1 /\ (n + 1) - 1 = n
    BY <1>1
  <2> QED BY <1>3, <2>1, ActedRound
<1>7. U!RunActs(m, more, text, p) = IF v[n].at[1] = "throw" THEN v[n] ELSE U!Act(v[n], a, text, p)
  BY <1>1, <1>3, <1>5, <1>6
<1> QED BY <1>2, <1>7 DEF more

-----------------------------------------------------------------------------
\* A Uri by its parts, and what an action does to it.
Parts(s, u, h, n, p, q, f) ==
  [scheme |-> s, userinfo |-> u, host |-> h, port |-> n, path |-> p, query |-> q, fragment |-> f]

LEMMA PartsAre ==
  ASSUME NEW s, NEW u, NEW h, NEW n, NEW pa, NEW q, NEW f, NEW v, v = Parts(s, u, h, n, pa, q, f)
  PROVE  /\ v.scheme = s /\ v.userinfo = u /\ v.host = h /\ v.port = n
         /\ v.path = pa /\ v.query = q /\ v.fragment = f
BY DEF Parts

LEMMA RunIs ==
  ASSUME NEW u, NEW k, NEW ph
  PROVE  LET m == U!Run(u, k, ph) IN m.uri = u /\ m.mark = k /\ m.at = ph
BY DEF U!Run

LEMMA ActMark ==
  ASSUME NEW u, NEW k, NEW ph, NEW text, NEW p
  PROVE  U!Act(U!Run(u, k, ph), "mark", text, p) = U!Run(u, p, ph)
BY DEF U!Act, U!Run

\* The Uri with a part saved, and what the action does.
Put(v, part, it) ==
  CASE part = "scheme"   -> [v EXCEPT !.scheme = it]
    [] part = "user"     -> [v EXCEPT !.userinfo = it]
    [] part = "host"     -> [v EXCEPT !.host = it]
    [] part = "port"     -> [v EXCEPT !.port = it]
    [] part = "path"     -> [v EXCEPT !.path = it]
    [] part = "query"    -> [v EXCEPT !.query = it]
    [] part = "fragment" -> [v EXCEPT !.fragment = it]
TextParts == {"scheme", "user", "host", "path", "query", "fragment"}

LEMMA PartsPut ==
  ASSUME NEW s, NEW u, NEW h, NEW n, NEW pa, NEW q, NEW f, NEW it
  PROVE  /\ Put(Parts(s, u, h, n, pa, q, f), "scheme", it) = Parts(it, u, h, n, pa, q, f)
         /\ Put(Parts(s, u, h, n, pa, q, f), "user", it) = Parts(s, it, h, n, pa, q, f)
         /\ Put(Parts(s, u, h, n, pa, q, f), "host", it) = Parts(s, u, it, n, pa, q, f)
         /\ Put(Parts(s, u, h, n, pa, q, f), "port", it) = Parts(s, u, h, it, pa, q, f)
         /\ Put(Parts(s, u, h, n, pa, q, f), "path", it) = Parts(s, u, h, n, it, q, f)
         /\ Put(Parts(s, u, h, n, pa, q, f), "query", it) = Parts(s, u, h, n, pa, it, f)
         /\ Put(Parts(s, u, h, n, pa, q, f), "fragment", it) = Parts(s, u, h, n, pa, q, it)
<1> DEFINE v == Parts(s, u, h, n, pa, q, f)
<1>1. /\ [v EXCEPT !.scheme = it] = Parts(it, u, h, n, pa, q, f)
      /\ [v EXCEPT !.userinfo = it] = Parts(s, it, h, n, pa, q, f)
      /\ [v EXCEPT !.host = it] = Parts(s, u, it, n, pa, q, f)
      /\ [v EXCEPT !.port = it] = Parts(s, u, h, it, pa, q, f)
      /\ [v EXCEPT !.path = it] = Parts(s, u, h, n, it, q, f)
      /\ [v EXCEPT !.query = it] = Parts(s, u, h, n, pa, it, f)
      /\ [v EXCEPT !.fragment = it] = Parts(s, u, h, n, pa, q, it)
  BY DEF Parts
<1> HIDE DEF v
<1>2. /\ Put(v, "scheme", it) = [v EXCEPT !.scheme = it]
      /\ Put(v, "user", it) = [v EXCEPT !.userinfo = it]
      /\ Put(v, "host", it) = [v EXCEPT !.host = it]
      /\ Put(v, "port", it) = [v EXCEPT !.port = it]
      /\ Put(v, "path", it) = [v EXCEPT !.path = it]
      /\ Put(v, "query", it) = [v EXCEPT !.query = it]
      /\ Put(v, "fragment", it) = [v EXCEPT !.fragment = it]
  BY DEF Put
<1> QED BY <1>1, <1>2, Zenon DEF v

\* The text from the mark k to the character in front of n, and from k to the end.
Cut(text, k, n) == SubSeq(text, k, n - 1)
From(text, k) == SubSeq(text, k, Len(text))

LEMMA ActSaves ==
  ASSUME NEW v, NEW k, k # 0, NEW ph, NEW text, NEW p, NEW it, Cut(text, k, p) = it,
         NEW part \in TextParts
  PROVE  U!Act(U!Run(v, k, ph), part, text, p)
           = U!Run(Put(v, part, it), IF part = "host" THEN k ELSE 0, ph)
<1> DEFINE m == U!Run(v, k, ph)
<1>1. m.uri = v /\ m.mark = k /\ m.at = ph
  BY DEF U!Run
<1> HIDE DEF m
<1>2. U!Act(m, part, text, p) = U!Saved(m, part, it)
  BY <1>1 DEF U!Act, U!Null, TextParts, Cut
<1>3. U!Saved(m, part, it) = U!Run(Put(v, part, it), IF part = "host" THEN k ELSE 0, ph)
  <2>1. U!Saved(m, "scheme", it) = U!Run([m.uri EXCEPT !.scheme = it], 0, m.at)
    BY DEF U!Saved, U!Null
  <2>2. U!Saved(m, "user", it) = U!Run([m.uri EXCEPT !.userinfo = it], 0, m.at)
    BY DEF U!Saved, U!Null
  <2>3. U!Saved(m, "host", it) = U!Run([m.uri EXCEPT !.host = it], m.mark, m.at)
    BY DEF U!Saved, U!Null
  <2>4. U!Saved(m, "path", it) = U!Run([m.uri EXCEPT !.path = it], 0, m.at)
    BY DEF U!Saved, U!Null
  <2>5. U!Saved(m, "query", it) = U!Run([m.uri EXCEPT !.query = it], 0, m.at)
    BY DEF U!Saved, U!Null
  <2>6. U!Saved(m, "fragment", it) = U!Run([m.uri EXCEPT !.fragment = it], 0, m.at)
    BY DEF U!Saved, U!Null
  <2>7. /\ Put(v, "scheme", it) = [v EXCEPT !.scheme = it]
        /\ Put(v, "user", it) = [v EXCEPT !.userinfo = it]
        /\ Put(v, "host", it) = [v EXCEPT !.host = it]
        /\ Put(v, "path", it) = [v EXCEPT !.path = it]
        /\ Put(v, "query", it) = [v EXCEPT !.query = it]
        /\ Put(v, "fragment", it) = [v EXCEPT !.fragment = it]
    BY DEF Put
  <2>8. CASE part = "host"
    BY <1>1, <2>3, <2>7, <2>8, Zenon
  <2>9. ASSUME part # "host" PROVE U!Saved(m, part, it) = U!Run(Put(v, part, it), 0, ph)
    <3>1. part \in {"scheme", "user", "path", "query", "fragment"}
      BY <2>9 DEF TextParts
    <3>2. CASE part = "scheme"
      BY <1>1, <2>1, <2>7, <3>2, Zenon
    <3>3. CASE part = "user"
      BY <1>1, <2>2, <2>7, <3>3, Zenon
    <3>4. CASE part = "path"
      BY <1>1, <2>4, <2>7, <3>4, Zenon
    <3>5. CASE part = "query"
      BY <1>1, <2>5, <2>7, <3>5, Zenon
    <3>6. CASE part = "fragment"
      BY <1>1, <2>6, <2>7, <3>6, Zenon
    <3> QED BY <3>1, <3>2, <3>3, <3>4, <3>5, <3>6
  <2> QED BY <2>8, <2>9
<1> QED BY <1>2, <1>3 DEF m

LEMMA ActPort ==
  ASSUME NEW v, NEW k, NEW ph, NEW text, NEW p, p # k,
         NEW x, U!Number(From(text, k)) = x
  PROVE  U!Act(U!Run(v, k, ph), "port", text, p) = U!Run(Put(v, "port", x), 0, ph)
<1> DEFINE m == U!Run(v, k, ph)
<1>1. m.uri = v /\ m.mark = k /\ m.at = ph
  BY DEF U!Run
<1> HIDE DEF m
<1>2. Put(v, "port", x) = [v EXCEPT !.port = x]
  BY DEF Put
<1>3. U!Act(m, "port", text, p) = U!Run([m.uri EXCEPT !.port = x], 0, ph)
  BY <1>1 DEF U!Act, U!Null, From
<1> QED BY <1>1, <1>2, <1>3, Zenon DEF m

Live(ph) == ph[1] \notin {"error", "throw"}

LEMMA ActsMore ==
  ASSUME NEW m, NEW X, NEW acts \in Seq(X), NEW a \in X, NEW text, NEW p, NEW w,
         w = U!RunActs(m, acts, text, p), Live(w.at)
  PROVE  U!RunActs(m, Append(acts, a), text, p) = U!Act(w, a, text, p)
BY ActsAppend DEF Live

LEMMA ActsOne ==
  ASSUME NEW m, Live(m.at), NEW a, NEW text, NEW p
  PROVE  U!RunActs(m, <<a>>, text, p) = U!Act(m, a, text, p)
<1>1. <<>> \in Seq({a}) /\ a \in {a}
  OBVIOUS
<1>2. U!RunActs(m, <<>>, text, p) = m
  BY ActsNone
<1>3. ASSUME NEW acts \in Seq({a}), m = U!RunActs(m, acts, text, p)
      PROVE  U!RunActs(m, Append(acts, a), text, p) = U!Act(m, a, text, p)
  BY <1>1, <1>3, ActsMore
<1>4. U!RunActs(m, Append(<<>>, a), text, p) = U!Act(m, a, text, p)
  BY <1>1, <1>2, <1>3
<1>5. Append(<<>>, a) = <<a>>
  OBVIOUS
<1> QED BY <1>4, <1>5

-----------------------------------------------------------------------------
\* One character.
LEMMA Taken ==
  ASSUME NEW text, NEW p, NEW u, NEW k, NEW ph, Live(ph), NEW c, c = U!CharAt(text, p),
         NEW to, NEW acts, U!Step(ph, c) = U!Do(to, acts)
  PROVE  U!TakeChar(U!Run(u, k, ph), text, p) = U!RunActs(U!Run(u, k, to), acts, text, p)
<1>1. U!Do(to, acts).ph = to /\ U!Do(to, acts).acts = acts
  BY DEF U!Do
<1> DEFINE s == U!Step(ph, c)
<1>2. s.ph = to /\ s.acts = acts
  BY <1>1
<1> HIDE DEF s
<1>3. U!TakeChar(U!Run(u, k, ph), text, p) = U!RunActs(U!Run(u, k, s.ph), s.acts, text, p)
  BY RunIs DEF U!TakeChar, Live, s
<1> QED BY <1>2, <1>3

LEMMA TakenGoto ==
  ASSUME NEW text, NEW p, NEW u, NEW k, NEW ph, Live(ph),
         NEW to, U!Step(ph, U!CharAt(text, p)) = U!Goto(to)
  PROVE  U!TakeChar(U!Run(u, k, ph), text, p) = U!Run(u, k, to)
<1>1. U!Goto(to) = U!Do(to, <<>>)
  BY DEF U!Goto, U!Do
<1> QED BY <1>1, Taken, ActsNone

LEMMA TakenDo ==
  ASSUME NEW text, NEW p, NEW u, NEW k, NEW ph, Live(ph), NEW to, Live(to), NEW a,
         U!Step(ph, U!CharAt(text, p)) = U!Do(to, <<a>>)
  PROVE  U!TakeChar(U!Run(u, k, ph), text, p) = U!Act(U!Run(u, k, to), a, text, p)
<1>1. Live(U!Run(u, k, to).at)
  BY RunIs
<1> QED BY <1>1, Taken, ActsOne

LEMMA TakenMark ==
  ASSUME NEW text, NEW p, NEW u, NEW k, NEW ph, Live(ph), NEW to, Live(to),
         U!Step(ph, U!CharAt(text, p)) = U!Do(to, <<"mark">>)
  PROVE  U!TakeChar(U!Run(u, k, ph), text, p) = U!Run(u, p, to)
<1>1. U!TakeChar(U!Run(u, k, ph), text, p) = U!Act(U!Run(u, k, to), "mark", text, p)
  BY TakenDo
<1> QED BY <1>1, ActMark

-----------------------------------------------------------------------------
\* The classes of Uri are those of this module.
LEMMA Classes ==
  /\ U!Alpha = Alpha /\ U!Digit = Digit /\ U!XDigit = XDigit /\ U!regchar = regchar /\ U!pchar = pchar
BY DEF U!Alpha, U!Digit, U!XDigit, U!regchar, U!pchar, Alpha, Digit, XDigit, regchar, pchar,
       U!Upper, U!Lower, Upper, Lower, U!unreserved, unreserved, U!sub_delims, sub_delims

Delims == {":", "/", "?", "#", "[", "]", "@", "%", "EOF"}

LEMMA Disjoint ==
  /\ Digit \subseteq XDigit /\ Digit \subseteq regchar /\ Alpha \subseteq regchar
  /\ regchar \subseteq pchar /\ {"+", "-", "."} \subseteq regchar
  /\ Alpha \cap Digit = {} /\ XDigit \subseteq regchar
  /\ regchar \cap Delims = {} /\ pchar \cap Delims = {":", "@"}
BY DEF Alpha, Digit, XDigit, regchar, pchar, Upper, Lower, unreserved, sub_delims, Delims

LEMMA StepIs ==
  ASSUME NEW c, NEW a \in BOOLEAN
  PROVE  /\ U!Step(<<"start">>, c) = U!Start(c)
         /\ U!Step(<<"scheme">>, c) = U!Scheme(c)
         /\ U!Step(<<"hier">>, c) = U!HierPart(c)
         /\ U!Step(<<"hier/">>, c) = U!Slash(c, TRUE)
         /\ U!Step(<<"slash">>, c) = U!Slash(c, FALSE)
         /\ U!Step(<<"path">>, c) = U!Path(c)
         /\ U!Step(<<"abempty">>, c) = U!PathAbempty(c)
         /\ U!Step(<<"query0">>, c) = U!Marked(U!Query(c))
         /\ U!Step(<<"query">>, c) = U!Query(c)
         /\ U!Step(<<"fragment0">>, c) = U!Marked(U!Fragment(c))
         /\ U!Step(<<"fragment">>, c) = U!Fragment(c)
BY DEF U!Step

LEMMA StepPct ==
  ASSUME NEW c, NEW ph
  PROVE  /\ U!Step(<<"pct", 2, ph>>, c) = IF c \in U!XDigit THEN U!Goto(<<"pct", 1, ph>>) ELSE U!Err
         /\ U!Step(<<"pct", 1, ph>>, c) = IF c \in U!XDigit THEN U!Goto(ph) ELSE U!Err
BY DEF U!Step, U!PctDigit

LEMMA StepAuthority ==
  ASSUME NEW c, NEW a \in BOOLEAN
  PROVE  /\ U!Step(<<"auth", a>>, c) = U!Authority(c, a)
         /\ U!Step(<<"name", a>>, c) = U!Name(c, a)
         /\ U!Step(<<"colon", a>>, c) = U!Colon(c, a)
         /\ U!Step(<<"digits", a>>, c) = U!Digits(c, a)
         /\ U!Step(<<"userinfo", a>>, c) = U!UserInfo(c, a)
         /\ U!Step(<<"at", a>>, c) = U!At(c, a)
         /\ U!Step(<<"host", a>>, c) = U!Host(c, a)
         /\ U!Step(<<"port0", a>>, c) = U!Port0(c, a)
         /\ U!Step(<<"port", a>>, c) = U!Port(c, a)
         /\ \A ph : U!Step(<<"literal", a, ph>>, c) = U!IpLiteral(ph, c, a)
         /\ U!Step(<<"literalEnd", a>>, c) = U!LiteralEnd(c, a)
<1>1. CASE a = TRUE
  BY <1>1 DEF U!Step, U!Absolute, U!InAuthority
<1>2. CASE a = FALSE
  BY <1>2 DEF U!Step, U!Relative, U!InAuthority
<1> QED BY <1>1, <1>2

-----------------------------------------------------------------------------
\* A text that the automaton reads without leaving its phase; escapes leave it for two digits.
UrlChars == pchar \cup {":", "/", "?", "#", "[", "]", "@", "%"}

\* The text has t behind p characters.
Holds(text, p, t) == p + Len(t) <= Len(text) /\ \A i \in 1 .. Len(t) : text[p + i] = t[i]

Scan(m, text) == /\ text \in Seq(UrlChars) /\ Runs(m, text, 0, Len(text) + 1)

LEMMA ScanTo ==
  ASSUME NEW m, NEW text, Scan(m, text), NEW p \in 0 .. Len(text)
  PROVE  /\ m[p + 1] = U!TakeChar(m[p], text, p + 1)
         /\ U!CharAt(text, p + 1) = IF p = Len(text) THEN "EOF" ELSE text[p + 1]
<1>1. Len(text) \in Nat
  BY DEF Scan
<1>2. p + 1 \in 0 + 1 .. Len(text) + 1 /\ (p + 1) - 1 = p
  BY <1>1
<1>3. m[p + 1] = U!TakeChar(m[(p + 1) - 1], text, p + 1)
  BY <1>2 DEF Scan, Runs
<1> QED BY <1>1, <1>2, <1>3 DEF U!CharAt

LEMMA ScanIn ==
  ASSUME NEW m, NEW text, Scan(m, text), NEW t \in Seq(UrlChars), NEW p \in Nat, Holds(text, p, t),
         NEW i \in 0 .. Len(t) - 1
  PROVE  /\ m[p + (i + 1)] = U!TakeChar(m[p + i], text, p + (i + 1))
         /\ U!CharAt(text, p + (i + 1)) = t[i + 1]
<1>1. Len(text) \in Nat /\ Len(t) \in Nat
  BY DEF Scan
<1>2. p + i \in 0 .. Len(text) /\ p + i # Len(text) /\ i + 1 \in 1 .. Len(t)
  BY <1>1 DEF Holds
<1>3. text[p + (i + 1)] = t[i + 1]
  BY <1>2 DEF Holds
<1>4. p + (i + 1) = (p + i) + 1
  OBVIOUS
<1> QED BY <1>2, <1>3, <1>4, ScanTo

\* Escapes, and where in one the parser is behind i characters of t.
Escaped(t) ==
  \A i \in 1 .. Len(t) : t[i] = "%" => i + 2 <= Len(t) /\ t[i + 1] \in XDigit /\ t[i + 2] \in XDigit
Within(t, i, ph) ==
  IF i >= 1 /\ t[i] = "%" THEN <<"pct", 2, ph>>
  ELSE IF i >= 2 /\ t[i - 1] = "%" THEN <<"pct", 1, ph>>
  ELSE ph

\* A phase in which the characters of t from i + 1 to j leave the parser.
Stays(ph, t, i, j) ==
  \A x \in i + 1 .. j : U!Step(ph, t[x]) = IF t[x] = "%" THEN U!Pct(ph) ELSE U!Goto(ph)

LEMMA XDigits == "%" \notin XDigit /\ U!XDigit = XDigit
BY Classes DEF XDigit, Digit

LEMMA EscapeStep ==
  ASSUME NEW t \in Seq(UrlChars), Escaped(t), NEW ph, Live(ph), NEW i \in 0 .. Len(t) - 1,
         Stays(ph, t, i, i + 1)
  PROVE  /\ Live(Within(t, i, ph))
         /\ U!Step(Within(t, i, ph), t[i + 1]) = U!Goto(Within(t, i + 1, ph))
<1>0. Len(t) \in Nat /\ i + 1 \in 1 .. Len(t)
  OBVIOUS
<1>1. U!Step(ph, t[i + 1]) = IF t[i + 1] = "%" THEN U!Pct(ph) ELSE U!Goto(ph)
  BY <1>0 DEF Stays
<1> DEFINE c == t[i + 1]
<1>2. CASE i >= 1 /\ t[i] = "%"
  <2>1. c \in XDigit /\ c # "%"
    BY <1>2, XDigits DEF Escaped
  <2>2. Within(t, i, ph) = <<"pct", 2, ph>> /\ Within(t, i + 1, ph) = <<"pct", 1, ph>>
    BY <1>2, <2>1 DEF Within
  <2>3. U!Step(Within(t, i, ph), c) = U!Goto(Within(t, i + 1, ph))
    <3> HIDE DEF c
    <3> QED BY <2>1, <2>2, StepPct, XDigits
  <2> QED BY <2>2, <2>3 DEF Live
<1>3. CASE ~(i >= 1 /\ t[i] = "%") /\ i >= 2 /\ t[i - 1] = "%"
  <2>1. c \in XDigit /\ c # "%"
    <3>1. i - 1 \in 1 .. Len(t) /\ (i - 1) + 2 = i + 1
      BY <1>3
    <3> QED BY <1>3, <3>1, XDigits DEF Escaped
  <2>2. Within(t, i, ph) = <<"pct", 1, ph>> /\ Within(t, i + 1, ph) = ph
    BY <1>3, <2>1 DEF Within
  <2>3. U!Step(Within(t, i, ph), c) = U!Goto(Within(t, i + 1, ph))
    <3> HIDE DEF c
    <3> QED BY <2>1, <2>2, StepPct, XDigits
  <2> QED BY <2>2, <2>3 DEF Live
<1>4. CASE ~(i >= 1 /\ t[i] = "%") /\ ~(i >= 2 /\ t[i - 1] = "%")
  <2>1. Within(t, i, ph) = ph
    BY <1>4 DEF Within
  <2>2. Within(t, i + 1, ph) = IF c = "%" THEN <<"pct", 2, ph>> ELSE ph
    BY <1>4 DEF Within
  <2> QED BY <1>1, <2>1, <2>2 DEF U!Pct
<1> QED BY <1>2, <1>3, <1>4

LEMMA WithinEnds ==
  ASSUME NEW t \in Seq(UrlChars), Escaped(t), NEW ph
  PROVE  Within(t, Len(t), ph) = ph /\ Within(t, 0, ph) = ph
<1>1. Len(t) \in Nat
  OBVIOUS
<1>2. Len(t) >= 1 => t[Len(t)] # "%"
  BY <1>1 DEF Escaped
<1>3. Len(t) >= 2 => t[Len(t) - 1] # "%"
  <2> SUFFICES ASSUME Len(t) >= 2, t[Len(t) - 1] = "%" PROVE FALSE
    OBVIOUS
  <2>1. Len(t) - 1 \in 1 .. Len(t)
    BY <1>1
  <2> QED BY <1>1, <2>1 DEF Escaped
<1> QED BY <1>1, <1>2, <1>3 DEF Within

LEMMA ScanText ==
  ASSUME NEW m, NEW text, Scan(m, text), NEW t \in Seq(UrlChars), NEW p \in Nat, Holds(text, p, t),
         Escaped(t), NEW ph, Live(ph), NEW u, NEW k, NEW lo \in 0 .. Len(t), NEW hi \in lo .. Len(t),
         Stays(ph, t, lo, hi), m[p + lo] = U!Run(u, k, Within(t, lo, ph))
  PROVE  m[p + hi] = U!Run(u, k, Within(t, hi, ph))
<1> DEFINE Bad == {i \in lo .. hi : m[p + i] # U!Run(u, k, Within(t, i, ph))}
<1>0. Len(t) \in Nat
  OBVIOUS
<1>1. SUFFICES ASSUME Bad # {} PROVE FALSE
  BY <1>0
<1>2. PICK n \in Bad : n \in Nat /\ \A j \in Bad : n <= j
  <2>1. Bad \in SUBSET Nat
    BY <1>0
  <2> HIDE DEF Bad
  <2> QED BY <1>1, <2>1, LeastExists
<1>3. n # lo /\ n \in lo .. hi
  BY <1>2
<1> DEFINE i == n - 1
<1>4. i \in 0 .. Len(t) - 1 /\ i \in lo .. hi /\ i \notin Bad /\ i + 1 = n
  BY <1>0, <1>2, <1>3
<1> HIDE DEF i
<1>5. m[p + i] = U!Run(u, k, Within(t, i, ph))
  BY <1>4
<1>6. Stays(ph, t, i, i + 1)
  BY <1>0, <1>3, <1>4 DEF Stays
<1>7. m[p + (i + 1)] = U!TakeChar(m[p + i], text, p + (i + 1)) /\ U!CharAt(text, p + (i + 1)) = t[i + 1]
  BY <1>4, ScanIn
<1>8. Live(Within(t, i, ph)) /\ U!Step(Within(t, i, ph), t[i + 1]) = U!Goto(Within(t, i + 1, ph))
  BY <1>4, <1>6, EscapeStep
<1>9. m[p + (i + 1)] = U!Run(u, k, Within(t, i + 1, ph))
  BY <1>5, <1>7, <1>8, TakenGoto
<1> QED BY <1>2, <1>4, <1>9

-----------------------------------------------------------------------------
\* What the text has at a place: a text, or one behind its delimiter.
\* A phase whose first character sets the mark.
Marks(first, ph, c) ==
  U!Step(first, c) = IF c = "%" THEN U!Do(<<"pct", 2, ph>>, <<"mark">>) ELSE U!Do(ph, <<"mark">>)

LEMMA ScanFirst ==
  ASSUME NEW m, NEW text, Scan(m, text), NEW t \in Seq(UrlChars), NEW p \in Nat, Holds(text, p, t),
         t # <<>>, NEW first, Live(first), NEW ph, Live(ph), Marks(first, ph, t[1]),
         NEW u, NEW k, m[p] = U!Run(u, k, first)
  PROVE  m[p + 1] = U!Run(u, p + 1, Within(t, 1, ph))
<1>1. Len(t) \in Nat /\ Len(t) # 0 /\ 0 \in 0 .. Len(t) - 1 /\ p + 0 = p /\ 0 + 1 = 1
  OBVIOUS
<1>2. m[p + 1] = U!TakeChar(m[p], text, p + 1) /\ U!CharAt(text, p + 1) = t[1]
  <2>1. ASSUME NEW i \in 0 .. Len(t) - 1
        PROVE  /\ m[p + (i + 1)] = U!TakeChar(m[p + i], text, p + (i + 1))
               /\ U!CharAt(text, p + (i + 1)) = t[i + 1]
    BY ScanIn
  <2>2. /\ m[p + (0 + 1)] = U!TakeChar(m[p + 0], text, p + (0 + 1))
        /\ U!CharAt(text, p + (0 + 1)) = t[0 + 1]
    BY <1>1, <2>1
  <2> QED BY <1>1, <2>2
<1> DEFINE to == IF t[1] = "%" THEN <<"pct", 2, ph>> ELSE ph
<1>3. Within(t, 1, ph) = to /\ Live(to)
  BY DEF Within, Live
<1>4. U!Step(first, t[1]) = U!Do(to, <<"mark">>)
  BY DEF Marks
<1> HIDE DEF to
<1>5. U!TakeChar(U!Run(u, k, first), text, p + 1) = U!Run(u, p + 1, to)
  BY <1>2, <1>3, <1>4, TakenMark
<1> QED BY <1>2, <1>3, <1>5

LEMMA ScanMarked ==
  ASSUME NEW m, NEW text, Scan(m, text), NEW t \in Seq(UrlChars), NEW p \in Nat, Holds(text, p, t),
         t # <<>>, Escaped(t), NEW first, Live(first), NEW ph, Live(ph), Marks(first, ph, t[1]),
         NEW hi \in 1 .. Len(t), Stays(ph, t, 1, hi),
         NEW u, NEW k, m[p] = U!Run(u, k, first)
  PROVE  m[p + hi] = U!Run(u, p + 1, Within(t, hi, ph))
<1>1. m[p + 1] = U!Run(u, p + 1, Within(t, 1, ph))
  BY ScanFirst
<1>2. 1 \in 0 .. Len(t)
  OBVIOUS
<1> QED BY <1>1, <1>2, ScanText

LEMMA ScanPart ==
  ASSUME NEW m, NEW text, Scan(m, text), NEW t \in Seq(UrlChars), NEW p \in Nat, Holds(text, p, t),
         t # <<>>, Escaped(t), NEW first, Live(first), NEW ph, Live(ph), Marks(first, ph, t[1]),
         Stays(ph, t, 1, Len(t)), NEW u, NEW j, m[p] = U!Run(u, j, first),
         NEW q \in Nat, q = p + Len(t), NEW k \in Nat, k = p + 1
  PROVE  m[q] = U!Run(u, k, ph)
<1>1. Len(t) \in Nat /\ Len(t) \in 1 .. Len(t)
  OBVIOUS
<1>2. m[p + Len(t)] = U!Run(u, p + 1, Within(t, Len(t), ph))
  BY <1>1, ScanMarked
<1>3. Within(t, Len(t), ph) = ph
  BY WithinEnds
<1> QED BY <1>2, <1>3

-----------------------------------------------------------------------------
\* A part behind its delimiter.
Part(text, p, d, t, r) == r = p + Len(U!After(d, t)) /\ Holds(text, p, U!After(d, t))

LEMMA PartIs ==
  ASSUME NEW text \in Seq(UrlChars), NEW t \in Seq(UrlChars), NEW p \in Nat, NEW d \in UrlChars, NEW r \in Nat,
         Part(text, p, d, t, r)
  PROVE  /\ t = <<>> => r = p
         /\ t # <<>> => /\ U!CharAt(text, p + 1) = d /\ p + 1 <= Len(text)
                        /\ Holds(text, p + 1, t) /\ r = (p + 1) + Len(t)
         /\ r \in Nat /\ r <= Len(text) /\ p <= r
<1>0. Len(text) \in Nat /\ Len(t) \in Nat
  OBVIOUS
<1>1. CASE t = <<>>
  BY <1>0, <1>1 DEF Part, Holds, U!After
<1>2. CASE t # <<>>
  <2> DEFINE dt == <<d>> \o t
  <2>1. U!After(d, t) = dt
    BY <1>2 DEF U!After
  <2>2. Len(dt) = 1 + Len(t) /\ dt[1] = d /\ \A i \in 1 .. Len(t) : dt[i + 1] = t[i]
    OBVIOUS
  <2> HIDE DEF dt
  <2>3. p + Len(dt) <= Len(text) /\ \A i \in 1 .. Len(dt) : text[p + i] = dt[i]
    BY <2>1 DEF Part, Holds
  <2>4. p + 1 <= Len(text) /\ text[p + 1] = d
    BY <1>0, <2>2, <2>3
  <2>5. ASSUME NEW i \in 1 .. Len(t) PROVE text[(p + 1) + i] = t[i]
    <3>1. i + 1 \in 1 .. Len(dt) /\ p + (i + 1) = (p + 1) + i
      BY <1>0, <2>2
    <3> QED BY <2>2, <2>3, <3>1
  <2>6. Holds(text, p + 1, t)
    BY <1>0, <2>2, <2>3, <2>5 DEF Holds
  <2> QED BY <1>0, <1>2, <2>1, <2>2, <2>3, <2>4, <2>6 DEF Part, U!CharAt
<1> QED BY <1>1, <1>2

LEMMA PartEmpty ==
  ASSUME NEW text, NEW p \in Nat, NEW d, NEW r, Part(text, p, d, <<>>, r)
  PROVE  r = p
BY DEF Part, U!After

LEMMA HoldsSub ==
  ASSUME NEW text \in Seq(UrlChars), NEW t \in Seq(UrlChars), NEW p \in Nat, Holds(text, p, t)
  PROVE  SubSeq(text, p + 1, p + Len(t)) = t
<1>0. Len(text) \in Nat /\ Len(t) \in Nat
  OBVIOUS
<1> DEFINE s == SubSeq(text, p + 1, p + Len(t))
<1>1. s \in Seq(UrlChars) /\ Len(s) = Len(t)
  BY <1>0 DEF Holds
<1>2. ASSUME NEW i \in 1 .. Len(t) PROVE s[i] = t[i]
  BY <1>0 DEF Holds
<1> HIDE DEF s
<1>3. s = t
  BY <1>1, <1>2, SeqEqual
<1> QED BY <1>3 DEF s

-----------------------------------------------------------------------------
\* The phases behind an authority: path, query, fragment.
Behinds == {"?", "#", "EOF"}

\* Where Rest goes on.
RestPhase(c) ==
  CASE c = "?" -> <<"query0">> [] c = "#" -> <<"fragment0">> [] c = "EOF" -> <<"final">>

LEMMA RestIs ==
  ASSUME NEW c \in Behinds, NEW acts
  PROVE  U!Rest(c, acts) = U!Do(RestPhase(c), acts) /\ Live(RestPhase(c))
BY DEF Behinds, U!Rest, RestPhase, Live

LEMMA NotInClass ==
  ASSUME NEW c \in Behinds
  PROVE  c \notin pchar /\ c \notin regchar /\ c \notin Digit /\ c # "/" /\ c # "%" /\ c # ":" /\ c # "@"
         /\ c # "["
BY Disjoint DEF Behinds, Delims

\* The steps of the parts behind an authority.
LEMMA TailSteps ==
  ASSUME NEW c
  PROVE  /\ c \in pchar \cup {"/"} => U!Step(<<"path">>, c) = U!Goto(<<"path">>)
         /\ c \in pchar \cup {"/"} => U!Step(<<"abempty">>, c) = U!Goto(<<"abempty">>)
         /\ c \in pchar \cup {"/", "?"} => U!Step(<<"query">>, c) = U!Goto(<<"query">>)
         /\ c \in pchar \cup {"/", "?"} => U!Step(<<"fragment">>, c) = U!Goto(<<"fragment">>)
         /\ c = "%" => /\ U!Step(<<"path">>, c) = U!Pct(<<"path">>)
                       /\ U!Step(<<"abempty">>, c) = U!Pct(<<"abempty">>)
                       /\ U!Step(<<"query">>, c) = U!Pct(<<"query">>)
                       /\ U!Step(<<"fragment">>, c) = U!Pct(<<"fragment">>)
         /\ c \in Behinds => /\ U!Step(<<"path">>, c) = U!Rest(c, <<>>)
                             /\ U!Step(<<"abempty">>, c) = U!Rest(c, <<"path">>)
         /\ c \in {"#", "EOF"} => U!Step(<<"query">>, c) = U!Rest(c, <<"query">>)
         /\ c = "EOF" => U!Step(<<"fragment">>, c) = U!Do(<<"final">>, <<"fragment">>)
<1>1. {"/", "?", "#", "EOF", "%"} \cap pchar = {}
  BY Disjoint DEF Delims
<1>2. "%" # "/" /\ "%" # "?"
  OBVIOUS
<1> HIDE DEF pchar
<1> QED BY <1>1, StepIs, Classes DEF U!Path, U!PathAbempty, U!Query, U!Fragment, Behinds

LEMMA MarkedSteps ==
  ASSUME NEW c \in pchar \cup {"/", "?", "%"}
  PROVE  Marks(<<"query0">>, <<"query">>, c) /\ Marks(<<"fragment0">>, <<"fragment">>, c)
<1>1. ASSUME NEW ph PROVE U!Marked(U!Goto(ph)) = U!Do(ph, <<"mark">>)
  BY DEF U!Marked, U!Goto, U!Do
<1>2. "%" \notin pchar
  BY Disjoint DEF Delims
<1>3. /\ U!Step(<<"query0">>, c) = U!Marked(U!Query(c))
      /\ U!Step(<<"query">>, c) = U!Query(c)
      /\ U!Step(<<"fragment0">>, c) = U!Marked(U!Fragment(c))
      /\ U!Step(<<"fragment">>, c) = U!Fragment(c)
  BY StepIs
<1>4. CASE c = "%"
  BY <1>1, <1>3, <1>4, TailSteps DEF Marks, U!Pct
<1>5. CASE c # "%"
  BY <1>1, <1>3, <1>5, TailSteps DEF Marks
<1> QED BY <1>4, <1>5

LEMMA SpelledIs ==
  ASSUME NEW S \in SUBSET UrlChars, NEW t, Spelled(t, S)
  PROVE  t \in Seq(UrlChars) /\ Escaped(t) /\ \A i \in 1 .. Len(t) : t[i] \in S \cup {"%"}
BY DEF Spelled, Escaped, UrlChars

LEMMA TailStays ==
  ASSUME NEW t, NEW lo \in Nat
  PROVE  /\ Spelled(t, pchar \cup {"/"}) => /\ Stays(<<"path">>, t, lo, Len(t))
                                            /\ Stays(<<"abempty">>, t, lo, Len(t))
         /\ Spelled(t, pchar \cup {"/", "?"}) => /\ Stays(<<"query">>, t, lo, Len(t))
                                                 /\ Stays(<<"fragment">>, t, lo, Len(t))
<1>1. "%" \notin pchar \cup {"/", "?"}
  BY Disjoint DEF Delims
<1>2. ASSUME Spelled(t, pchar \cup {"/"})
      PROVE  Stays(<<"path">>, t, lo, Len(t)) /\ Stays(<<"abempty">>, t, lo, Len(t))
  <2>1. \A i \in 1 .. Len(t) : t[i] \in pchar \cup {"/"} \cup {"%"}
    BY <1>2 DEF Spelled
  <2>2. Len(t) \in Nat
    BY <1>2 DEF Spelled
  <2>3. ASSUME NEW x \in lo + 1 .. Len(t) PROVE t[x] \in pchar \cup {"/"} \/ t[x] = "%"
    BY <2>1, <2>2
  <2> QED BY <1>1, <2>3, TailSteps DEF Stays
<1>3. ASSUME Spelled(t, pchar \cup {"/", "?"})
      PROVE  Stays(<<"query">>, t, lo, Len(t)) /\ Stays(<<"fragment">>, t, lo, Len(t))
  <2>1. \A i \in 1 .. Len(t) : t[i] \in pchar \cup {"/", "?"} \cup {"%"}
    BY <1>3 DEF Spelled
  <2>2. Len(t) \in Nat
    BY <1>3 DEF Spelled
  <2>3. ASSUME NEW x \in lo + 1 .. Len(t) PROVE t[x] \in pchar \cup {"/", "?"} \/ t[x] = "%"
    BY <2>1, <2>2
  <2> QED BY <1>1, <2>3, TailSteps DEF Stays
<1> QED BY <1>2, <1>3

-----------------------------------------------------------------------------
\* A transition that saves the part from the mark on.
LEMMA TakenSave ==
  ASSUME NEW text, NEW t, NEW k, k # 0, NEW n, Cut(text, k, n) = t,
         NEW v, NEW ph, Live(ph), NEW to, Live(to), NEW part \in TextParts,
         U!Step(ph, U!CharAt(text, n)) = U!Do(to, <<part>>)
  PROVE  U!TakeChar(U!Run(v, k, ph), text, n)
           = U!Run(Put(v, part, t), IF part = "host" THEN k ELSE 0, to)
<1>1. U!TakeChar(U!Run(v, k, ph), text, n) = U!Act(U!Run(v, k, to), part, text, n)
  BY TakenDo
<1>2. U!Act(U!Run(v, k, to), part, text, n) = U!Run(Put(v, part, t), IF part = "host" THEN k ELSE 0, to)
  BY ActSaves
<1> QED BY <1>1, <1>2

LEMMA TextAt ==
  ASSUME NEW text \in Seq(UrlChars), NEW t \in Seq(UrlChars), NEW p \in Nat, Holds(text, p, t),
         NEW q \in Nat, q = p + Len(t), NEW k \in Nat, k = p + 1, NEW n \in Nat, n = q + 1
  PROVE  Cut(text, k, n) = t /\ k # 0
<1>1. SubSeq(text, p + 1, p + Len(t)) = t
  BY HoldsSub
<1>2. p + Len(t) = n - 1 /\ p + 1 = k
  OBVIOUS
<1> QED BY <1>1, <1>2 DEF Cut

\* A part that the first character marks, and the character behind it.
LEMMA PartRead ==
  ASSUME NEW m, NEW text, Scan(m, text), NEW t \in Seq(UrlChars), NEW p \in Nat, Holds(text, p, t),
         t # <<>>, Escaped(t), NEW first, Live(first), NEW ph, Live(ph), Marks(first, ph, t[1]),
         Stays(ph, t, 1, Len(t)), NEW u, NEW j, m[p] = U!Run(u, j, first),
         NEW k \in Nat, k = p + 1, NEW n \in Nat, n = p + Len(t) + 1
  PROVE  /\ m[n] = U!TakeChar(U!Run(u, k, ph), text, n)
         /\ Cut(text, k, n) = t /\ k # 0
<1>0. PICK q \in Nat : q = p + Len(t) /\ n = q + 1
  OBVIOUS
<1>1. m[q] = U!Run(u, k, ph)
  BY <1>0, ScanPart
<1>2. text \in Seq(UrlChars)
  BY DEF Scan
<1>3. q \in 0 .. Len(text)
  BY <1>0, <1>2 DEF Holds
<1>4. m[q + 1] = U!TakeChar(m[q], text, q + 1)
  BY <1>3, ScanTo
<1>5. Cut(text, k, n) = t /\ k # 0
  BY <1>0, <1>2, TextAt
<1> QED BY <1>0, <1>1, <1>4, <1>5

-----------------------------------------------------------------------------
IsPath(t) == Spelled(t, pchar \cup {"/"}) /\ (t = <<>> \/ t[1] = "/")
IsQuery(t) == Spelled(t, pchar \cup {"/", "?"})
Puts(w, v, part, t) == w = IF t = <<>> THEN v ELSE Put(v, part, t)

LEMMA QueryChars ==
  ASSUME NEW t, IsQuery(t)
  PROVE  t \in Seq(UrlChars) /\ Escaped(t) /\ \A i \in 1 .. Len(t) : t[i] \in pchar \cup {"/", "?", "%"}
<1>1. pchar \cup {"/", "?"} \in SUBSET UrlChars
  BY DEF UrlChars
<1>2. pchar \cup {"/", "?"} \cup {"%"} = pchar \cup {"/", "?", "%"}
  OBVIOUS
<1> HIDE DEF pchar, UrlChars
<1> QED BY <1>1, <1>2, SpelledIs DEF IsQuery

\* Behind the query: the fragment and the end.
LEMMA FragmentTaken ==
  ASSUME NEW m, NEW text, Scan(m, text), NEW t, IsQuery(t), NEW p \in Nat,
         NEW L \in Nat, L = Len(text), Part(text, p, "#", t, L), NEW v, NEW w, NEW k,
         m[p + 1] = U!Run(v, k, RestPhase(U!CharAt(text, p + 1))),
         Puts(w, v, "fragment", t)
  PROVE  \E k1 : m[L + 1] = U!Run(w, k1, <<"final">>)
<1>0. text \in Seq(UrlChars) /\ "#" \in UrlChars
  BY DEF Scan, UrlChars
<1>1. t \in Seq(UrlChars) /\ Escaped(t) /\ \A i \in 1 .. Len(t) : t[i] \in pchar \cup {"/", "?", "%"}
  BY QueryChars
<1>2. CASE t = <<>>
  <2>1. p = L
    BY <1>2, PartEmpty
  <2>2. U!CharAt(text, p + 1) = "EOF"
    BY <1>0, <2>1 DEF U!CharAt
  <2> QED BY <1>2, <2>1, <2>2 DEF RestPhase, Puts
<1>3. CASE t # <<>>
  <2>1. U!CharAt(text, p + 1) = "#" /\ Holds(text, p + 1, t) /\ L = (p + 1) + Len(t)
    BY <1>0, <1>1, <1>3, PartIs
  <2>2. m[p + 1] = U!Run(v, k, <<"fragment0">>)
    BY <2>1 DEF RestPhase
  <2>3. PICK p1 \in Nat, k1 \in Nat, n \in Nat : p1 = p + 1 /\ k1 = p1 + 1 /\ n = L + 1
    <3>1. p + 1 \in Nat /\ (p + 1) + 1 \in Nat /\ L + 1 \in Nat
      OBVIOUS
    <3> QED BY <3>1, Zenon
  <2>4. Marks(<<"fragment0">>, <<"fragment">>, t[1]) /\ Stays(<<"fragment">>, t, 1, Len(t))
    <3>1. 1 \in 1 .. Len(t)
      BY <1>1, <1>3
    <3> QED BY <1>1, <3>1, MarkedSteps, TailStays DEF IsQuery
  <2>5. Live(<<"fragment0">>) /\ Live(<<"fragment">>) /\ Live(<<"final">>)
    BY DEF Live
  <2>6. Holds(text, p1, t) /\ n = p1 + Len(t) + 1 /\ m[p1] = U!Run(v, k, <<"fragment0">>)
    BY <2>1, <2>2, <2>3
  <2>7. /\ m[n] = U!TakeChar(U!Run(v, k1, <<"fragment">>), text, n)
        /\ Cut(text, k1, n) = t /\ k1 # 0
    BY <1>1, <1>3, <2>3, <2>4, <2>5, <2>6, PartRead
  <2>8. U!CharAt(text, n) = "EOF"
    BY <1>0, <2>3 DEF U!CharAt
  <2>9. U!Step(<<"fragment">>, "EOF") = U!Do(<<"final">>, <<"fragment">>)
    BY TailSteps
  <2>10. m[n] = U!Run(Put(v, "fragment", t), 0, <<"final">>)
    <3>1. "fragment" \in TextParts
      BY DEF TextParts
    <3>2. U!Step(<<"fragment">>, U!CharAt(text, n)) = U!Do(<<"final">>, <<"fragment">>)
      BY <2>8, <2>9
    <3>3. U!TakeChar(U!Run(v, k1, <<"fragment">>), text, n)
            = U!Run(Put(v, "fragment", t), IF "fragment" = "host" THEN k1 ELSE 0, <<"final">>)
      BY <2>5, <2>7, <2>9, <3>1, <3>2, TakenSave
    <3> QED BY <2>7, <3>3
  <2> QED BY <1>3, <2>3, <2>10 DEF Puts
<1> QED BY <1>2, <1>3

\* Behind the path: the query.
LEMMA QueryTaken ==
  ASSUME NEW m, NEW text, Scan(m, text), NEW t, IsQuery(t), NEW p \in Nat,
         NEW q \in Nat, Part(text, p, "?", t, q), NEW v, NEW w, NEW k,
         NEW c \in {"#", "EOF"}, c = U!CharAt(text, q + 1),
         m[p + 1] = U!Run(v, k, RestPhase(U!CharAt(text, p + 1))),
         Puts(w, v, "query", t)
  PROVE  \E k1 : m[q + 1] = U!Run(w, k1, RestPhase(c))
<1>0. text \in Seq(UrlChars) /\ "?" \in UrlChars
  BY DEF Scan, UrlChars
<1>1. t \in Seq(UrlChars) /\ Escaped(t) /\ \A i \in 1 .. Len(t) : t[i] \in pchar \cup {"/", "?", "%"}
  BY QueryChars
<1>2. CASE t = <<>>
  <2>1. p = q
    BY <1>2, PartEmpty
  <2> QED BY <1>2, <2>1 DEF Puts
<1>3. CASE t # <<>>
  <2>1. U!CharAt(text, p + 1) = "?" /\ Holds(text, p + 1, t) /\ q = (p + 1) + Len(t)
    BY <1>0, <1>1, <1>3, PartIs
  <2>2. m[p + 1] = U!Run(v, k, <<"query0">>)
    BY <2>1 DEF RestPhase
  <2>3. PICK p1 \in Nat, k1 \in Nat, n \in Nat : p1 = p + 1 /\ k1 = p1 + 1 /\ n = q + 1
    <3>1. p + 1 \in Nat /\ (p + 1) + 1 \in Nat /\ q + 1 \in Nat
      OBVIOUS
    <3> QED BY <3>1, Zenon
  <2>4. Marks(<<"query0">>, <<"query">>, t[1]) /\ Stays(<<"query">>, t, 1, Len(t))
    <3>1. 1 \in 1 .. Len(t)
      BY <1>1, <1>3
    <3> QED BY <1>1, <3>1, MarkedSteps, TailStays DEF IsQuery
  <2>5. Live(<<"query0">>) /\ Live(<<"query">>)
    BY DEF Live
  <2>6. Holds(text, p1, t) /\ n = p1 + Len(t) + 1 /\ m[p1] = U!Run(v, k, <<"query0">>)
    BY <2>1, <2>2, <2>3
  <2>7. /\ m[n] = U!TakeChar(U!Run(v, k1, <<"query">>), text, n)
        /\ Cut(text, k1, n) = t /\ k1 # 0
    BY <1>1, <1>3, <2>3, <2>4, <2>5, <2>6, PartRead
  <2>8. U!CharAt(text, n) = c
    BY <2>3
  <2>9. U!Step(<<"query">>, c) = U!Do(RestPhase(c), <<"query">>) /\ Live(RestPhase(c))
    BY TailSteps, RestIs DEF Behinds
  <2>10. m[n] = U!Run(Put(v, "query", t), 0, RestPhase(c))
    <3>1. "query" \in TextParts
      BY DEF TextParts
    <3>2. U!Step(<<"query">>, U!CharAt(text, n)) = U!Do(RestPhase(c), <<"query">>)
      BY <2>8, <2>9
    <3>3. U!TakeChar(U!Run(v, k1, <<"query">>), text, n)
            = U!Run(Put(v, "query", t), IF "query" = "host" THEN k1 ELSE 0, RestPhase(c))
      BY <2>5, <2>7, <2>9, <3>1, <3>2, TakenSave
    <3> QED BY <2>7, <3>3
  <2> QED BY <1>3, <2>3, <2>10 DEF Puts
<1> QED BY <1>2, <1>3

-----------------------------------------------------------------------------
\* Where an authority goes on.
Enter(c, a) == IF c = "/" THEN IF a THEN <<"abempty">> ELSE <<"path">> ELSE RestPhase(c)

LEMMA CutNone == ASSUME NEW text, NEW k \in Nat PROVE Cut(text, k, k) = <<>>
BY DEF Cut

\* What the actions that end an authority do, wherever they lead.
Acts(u, k, acts, text, n, v) ==
  \A to : Live(to) => \E j : U!RunActs(U!Run(u, k, to), acts, text, n) = U!Run(v, j, to)

LEMMA ActsHost ==
  ASSUME NEW u, NEW k, k # 0, NEW text, NEW n, NEW h, Cut(text, k, n) = h
  PROVE  Acts(u, k, <<"host">>, text, n, Put(u, "host", h))
<1> SUFFICES ASSUME NEW to, Live(to)
             PROVE  \E j : U!RunActs(U!Run(u, k, to), <<"host">>, text, n) = U!Run(Put(u, "host", h), j, to)
  BY DEF Acts
<1>1. U!RunActs(U!Run(u, k, to), <<"host">>, text, n) = U!Act(U!Run(u, k, to), "host", text, n)
  BY RunIs, ActsOne
<1>2. "host" \in TextParts
  BY DEF TextParts
<1>3. U!Act(U!Run(u, k, to), "host", text, n)
        = U!Run(Put(u, "host", h), IF "host" = "host" THEN k ELSE 0, to)
  BY <1>2, ActSaves
<1> QED BY <1>1, <1>3, Zenon

LEMMA ActsTwo ==
  ASSUME NEW m, Live(m.at), NEW a, NEW b, NEW text, NEW p, NEW w, w = U!Act(m, a, text, p), Live(w.at)
  PROVE  U!RunActs(m, <<a, b>>, text, p) = U!Act(w, b, text, p)
<1> DEFINE acts == <<a, b>>
<1>1. acts \in Seq({a, b}) /\ Len(acts) = 2 /\ acts[1] = a /\ acts[2] = b
  OBVIOUS
<1> HIDE DEF acts
<1>2. PICK f : Acted(f, m, acts, text, p, 2) /\ U!RunActs(m, acts, text, p) = f[2]
  BY <1>1, RunActsIs
<1>3. /\ f[0] = m
      /\ \A k \in 1 .. 2 : f[k] = IF f[k - 1].at[1] = "throw" THEN f[k - 1]
                                  ELSE U!Act(f[k - 1], acts[k], text, p)
  BY <1>2, ActedRound
<1>4. f[1] = w
  <2>1. f[1] = IF f[0].at[1] = "throw" THEN f[0] ELSE U!Act(f[0], acts[1], text, p)
    BY <1>3
  <2> QED BY <1>1, <1>3, <2>1 DEF Live
<1>5. f[2] = IF f[1].at[1] = "throw" THEN f[1] ELSE U!Act(f[1], acts[2], text, p)
  BY <1>3
<1> QED BY <1>1, <1>2, <1>4, <1>5 DEF Live, acts

LEMMA ActsNoHost ==
  ASSUME NEW u, NEW k, NEW text, NEW n \in Nat, n # 0
  PROVE  Acts(u, k, <<"mark", "host">>, text, n, Put(u, "host", <<>>))
<1> SUFFICES ASSUME NEW to, Live(to)
             PROVE  \E j : U!RunActs(U!Run(u, k, to), <<"mark", "host">>, text, n)
                             = U!Run(Put(u, "host", <<>>), j, to)
  BY DEF Acts
<1>1. U!Act(U!Run(u, k, to), "mark", text, n) = U!Run(u, n, to)
  BY ActMark
<1>2. Live(U!Run(u, k, to).at) /\ Live(U!Run(u, n, to).at)
  BY RunIs
<1>3. U!RunActs(U!Run(u, k, to), <<"mark", "host">>, text, n) = U!Act(U!Run(u, n, to), "host", text, n)
  BY <1>1, <1>2, ActsTwo
<1>4. "host" \in TextParts
  BY DEF TextParts
<1>5. Cut(text, n, n) = <<>>
  BY CutNone
<1>6. U!Act(U!Run(u, n, to), "host", text, n)
        = U!Run(Put(u, "host", <<>>), IF "host" = "host" THEN n ELSE 0, to)
  BY <1>4, <1>5, ActSaves
<1> QED BY <1>3, <1>6, Zenon

LEMMA ActsPort ==
  ASSUME NEW u, NEW k, NEW text, NEW n, n # k, NEW x, U!Number(From(text, k)) = x
  PROVE  Acts(u, k, <<"port">>, text, n, Put(u, "port", x))
<1> SUFFICES ASSUME NEW to, Live(to)
             PROVE  \E j : U!RunActs(U!Run(u, k, to), <<"port">>, text, n) = U!Run(Put(u, "port", x), j, to)
  BY DEF Acts
<1>1. U!RunActs(U!Run(u, k, to), <<"port">>, text, n) = U!Act(U!Run(u, k, to), "port", text, n)
  BY RunIs, ActsOne
<1>2. U!Act(U!Run(u, k, to), "port", text, n) = U!Run(Put(u, "port", x), 0, to)
  BY ActPort
<1> QED BY <1>1, <1>2, Zenon

\* The end of an authority, behind q characters.
LEMMA AuthorityEnds ==
  ASSUME NEW text, NEW n \in Nat, n # 0, NEW a \in BOOLEAN, NEW c \in {"/"} \cup Behinds,
         c = U!CharAt(text, n), NEW ph, Live(ph), NEW X, NEW acts \in Seq(X), NEW u, NEW k, NEW v,
         U!Step(ph, c) = U!EndAuthority(c, a, acts), Acts(u, k, acts, text, n, v),
         Put(v, "path", <<>>) = v
  PROVE  \E j : /\ U!TakeChar(U!Run(u, k, ph), text, n) = U!Run(v, j, Enter(c, a))
                /\ a /\ c = "/" => j = n
<1> DEFINE to == Enter(c, a)
           next == U!TakeChar(U!Run(u, k, ph), text, n)
           m == U!Run(u, k, to)
<1>1. Live(to) /\ Live(m.at)
  BY RestIs, RunIs DEF Enter, Live
<1>2. PICK j : U!RunActs(m, acts, text, n) = U!Run(v, j, to)
  <2> HIDE DEF to
  <2> QED BY <1>1 DEF Acts
<1>3. ASSUME NEW all, U!Step(ph, c) = U!Do(to, all)
      PROVE  next = U!RunActs(m, all, text, n)
  <2> HIDE DEF to
  <2> QED BY <1>3, Taken
<1>4. CASE ~a
  <2>1. U!Step(ph, c) = U!Do(to, acts)
    BY <1>4, RestIs DEF U!EndAuthority, Enter
  <2> HIDE DEF to, next, m
  <2>2. next = U!Run(v, j, to)
    BY <1>2, <1>3, <2>1
  <2> QED BY <1>4, <2>2 DEF next, to
<1>5. CASE a /\ c = "/"
  <2>1. U!Step(ph, c) = U!Do(to, acts \o <<"mark">>)
    BY <1>5 DEF U!EndAuthority, Enter
  <2>2. acts \o <<"mark">> = Append(acts, "mark")
    OBVIOUS
  <2> HIDE DEF to, next
  <2>3. U!RunActs(m, Append(acts, "mark"), text, n) = U!Act(U!Run(v, j, to), "mark", text, n)
    <3>1. acts \in Seq(X \cup {"mark"}) /\ "mark" \in X \cup {"mark"}
      OBVIOUS
    <3>2. Live(U!Run(v, j, to).at)
      BY <1>1, RunIs
    <3> HIDE DEF m
    <3> QED BY <1>2, <3>1, <3>2, ActsMore
  <2>4. next = U!Run(v, n, to)
    <3>1. next = U!RunActs(m, acts \o <<"mark">>, text, n)
      BY <1>3, <2>1
    <3>2. U!Act(U!Run(v, j, to), "mark", text, n) = U!Run(v, n, to)
      BY ActMark
    <3> QED BY <2>2, <2>3, <3>1, <3>2, Zenon
  <2> QED BY <1>5, <2>4 DEF next, to
<1>6. CASE a /\ c # "/"
  <2>1. U!Step(ph, c) = U!Do(to, acts \o <<"mark", "path">>)
    BY <1>6, RestIs DEF U!EndAuthority, Enter
  <2>2. acts \o <<"mark", "path">> = Append(Append(acts, "mark"), "path")
    OBVIOUS
  <2> HIDE DEF to, next
  <2>3. /\ acts \in Seq(X \cup {"mark", "path"}) /\ "mark" \in X \cup {"mark", "path"}
        /\ Append(acts, "mark") \in Seq(X \cup {"mark", "path"}) /\ "path" \in X \cup {"mark", "path"}
    OBVIOUS
  <2>4. Live(U!Run(v, j, to).at) /\ Live(U!Run(v, n, to).at)
    BY <1>1, RunIs
  <2> HIDE DEF m
  <2>5. U!RunActs(m, Append(acts, "mark"), text, n) = U!Act(U!Run(v, j, to), "mark", text, n)
    BY <1>2, <2>3, <2>4, ActsMore
  <2>6. U!RunActs(m, Append(acts, "mark"), text, n) = U!Run(v, n, to)
    BY <2>5, ActMark
  <2>7. U!RunActs(m, Append(Append(acts, "mark"), "path"), text, n) = U!Act(U!Run(v, n, to), "path", text, n)
    <3> DEFINE more == Append(acts, "mark")
    <3>1. more \in Seq(X \cup {"mark", "path"}) /\ U!RunActs(m, more, text, n) = U!Run(v, n, to)
      BY <2>3, <2>6
    <3> DEFINE w == U!Run(v, n, to)
               all == X \cup {"mark", "path"}
    <3>2. more \in Seq(all) /\ "path" \in all /\ w = U!RunActs(m, more, text, n) /\ Live(w.at)
      BY <2>3, <2>4, <3>1
    <3> HIDE DEF more, w, all
    <3>3. U!RunActs(m, Append(more, "path"), text, n) = U!Act(w, "path", text, n)
      BY <3>2, ActsMore
    <3> QED BY <3>3 DEF more, w
  <2>8. U!Act(U!Run(v, n, to), "path", text, n) = U!Run(Put(v, "path", <<>>), 0, to)
    <3>1. "path" \in TextParts
      BY DEF TextParts
    <3>2. Cut(text, n, n) = <<>>
      BY CutNone
    <3>3. U!Act(U!Run(v, n, to), "path", text, n)
            = U!Run(Put(v, "path", <<>>), IF "path" = "host" THEN n ELSE 0, to)
      BY <3>1, <3>2, ActSaves
    <3> QED BY <3>3
  <2>9. next = U!Run(v, 0, to)
    <3>1. next = U!RunActs(m, acts \o <<"mark", "path">>, text, n)
      BY <1>3, <2>1
    <3> QED BY <2>2, <2>7, <2>8, <3>1, Zenon
  <2> QED BY <1>6, <2>9 DEF next, to
<1> QED BY <1>4, <1>5, <1>6

-----------------------------------------------------------------------------
\* The path, the query and the fragment, from the end of the authority to that of the text.
LEMMA PathChars ==
  ASSUME NEW t, IsPath(t)
  PROVE  t \in Seq(UrlChars) /\ Escaped(t)
<1>1. pchar \cup {"/"} \in SUBSET UrlChars
  BY DEF UrlChars
<1> HIDE DEF pchar, UrlChars
<1> QED BY <1>1, SpelledIs DEF IsPath

\* A path behind an authority is saved if there is a scheme.
PathOf(a, t) == IF a THEN t ELSE <<>>

LEMMA PathTaken ==
  ASSUME NEW m, NEW text, Scan(m, text), NEW t, IsPath(t),
         NEW p \in Nat, NEW q \in Nat, q = p + Len(t), Holds(text, p, t), NEW a \in BOOLEAN,
         NEW v, NEW j, m[p + 1] = U!Run(v, j, Enter(U!CharAt(text, p + 1), a)),
         a /\ U!CharAt(text, p + 1) = "/" => j = p + 1,
         U!CharAt(text, q + 1) \in Behinds,
         NEW w, Puts(w, v, "path", PathOf(a, t))
  PROVE  \E k : m[q + 1] = U!Run(w, k, RestPhase(U!CharAt(text, q + 1)))
<1> PICK c \in Behinds : c = U!CharAt(text, q + 1)
  OBVIOUS
<1>0. text \in Seq(UrlChars) /\ t \in Seq(UrlChars) /\ Escaped(t)
  BY PathChars DEF Scan
<1>1. CASE t = <<>>
  <2>1. q = p
    BY <1>1
  <2>2. Enter(c, a) = RestPhase(c)
    BY NotInClass DEF Enter
  <2> QED BY <1>1, <2>1, <2>2 DEF Puts, PathOf
<1>2. CASE t # <<>>
  <2> DEFINE ph == IF a THEN <<"abempty">> ELSE <<"path">>
  <2>1. Len(t) \in Nat /\ 1 \in 1 .. Len(t) /\ Len(text) \in Nat /\ t[1] = "/" /\ 1 \in 0 .. Len(t)
        /\ Len(t) \in 1 .. Len(t)
    BY <1>0, <1>2 DEF IsPath
  <2>2. U!CharAt(text, p + 1) = "/"
    BY <2>1 DEF Holds, U!CharAt
  <2>3. m[p + 1] = U!Run(v, j, ph) /\ (a => j = p + 1)
    BY <2>2 DEF Enter
  <2>4. Live(ph) /\ Stays(ph, t, 1, Len(t))
    BY TailStays DEF Live, IsPath
  <2>5. Within(t, 1, ph) = ph /\ Within(t, Len(t), ph) = ph
    <3>1. Within(t, 1, ph) = ph
      BY <2>1 DEF Within
    <3> HIDE DEF ph
    <3> QED BY <1>0, <3>1, WithinEnds
  <2>6. m[q] = U!Run(v, j, ph)
    <3> HIDE DEF ph
    <3>1. m[p + 1] = U!Run(v, j, Within(t, 1, ph))
      BY <2>3, <2>5
    <3>2. m[p + Len(t)] = U!Run(v, j, Within(t, Len(t), ph))
      BY <1>0, <2>1, <2>4, <3>1, ScanText
    <3> QED BY <2>5, <3>2
  <2>7. PICK n \in Nat : n = q + 1
    OBVIOUS
  <2>8. m[n] = U!TakeChar(U!Run(v, j, ph), text, n)
    <3>1. q \in 0 .. Len(text)
      BY <2>1 DEF Holds
    <3>2. m[q + 1] = U!TakeChar(m[q], text, q + 1)
      BY <3>1, ScanTo
    <3> QED BY <2>6, <2>7, <3>2
  <2>9. c = U!CharAt(text, n) /\ Live(RestPhase(c))
    BY <2>7, RestIs
  <2>10. CASE a
    <3>1. ph = <<"abempty">>
      BY <2>10
    <3>2. U!Step(ph, U!CharAt(text, n)) = U!Do(RestPhase(c), <<"path">>)
      BY <2>9, <3>1, TailSteps, RestIs
    <3>3. PICK k \in Nat : k = p + 1
      OBVIOUS
    <3>4. Cut(text, k, n) = t /\ k # 0
      BY <1>0, <2>7, <3>3, TextAt
    <3>5. "path" \in TextParts
      BY DEF TextParts
    <3> HIDE DEF ph
    <3>6. U!TakeChar(U!Run(v, k, ph), text, n)
            = U!Run(Put(v, "path", t), IF "path" = "host" THEN k ELSE 0, RestPhase(c))
      BY <2>4, <2>9, <3>2, <3>4, <3>5, TakenSave
    <3>7. j = k
      BY <2>3, <2>10, <3>3
    <3>8. m[n] = U!Run(w, 0, RestPhase(c))
      BY <1>2, <2>8, <2>10, <3>6, <3>7 DEF Puts, PathOf
    <3> QED BY <2>7, <3>8
  <2>11. CASE ~a
    <3>1. ph = <<"path">>
      BY <2>11
    <3>2. U!Step(ph, U!CharAt(text, n)) = U!Do(RestPhase(c), <<>>)
      BY <2>9, <3>1, TailSteps, RestIs
    <3>3. U!Goto(RestPhase(c)) = U!Do(RestPhase(c), <<>>)
      BY DEF U!Goto, U!Do
    <3> HIDE DEF ph
    <3>4. U!TakeChar(U!Run(v, j, ph), text, n) = U!Run(v, j, RestPhase(c))
      BY <2>4, <3>2, <3>3, TakenGoto
    <3>5. m[n] = U!Run(w, j, RestPhase(c))
      BY <2>8, <2>11, <3>4 DEF Puts, PathOf
    <3> QED BY <2>7, <3>5
  <2> QED BY <2>10, <2>11
<1> QED BY <1>1, <1>2

\* Behind the authority: the path, the query and the fragment.  At is the character
\* at which each ends.
LEMMA TailChars ==
  ASSUME NEW text \in Seq(UrlChars), NEW t \in Seq(UrlChars), NEW f \in Seq(UrlChars),
         NEW q \in Nat, NEW r \in Nat, Part(text, q, "?", t, r), Part(text, r, "#", f, Len(text))
  PROVE  U!CharAt(text, q + 1) \in Behinds /\ U!CharAt(text, r + 1) \in {"#", "EOF"}
<1>0. "?" \in UrlChars /\ "#" \in UrlChars /\ Len(text) \in Nat
  BY DEF UrlChars
<1>1. U!CharAt(text, r + 1) \in {"#", "EOF"}
  <2>1. CASE f = <<>>
    <3>1. r = Len(text)
      BY <1>0, <2>1, PartEmpty
    <3> QED BY <1>0, <3>1 DEF U!CharAt
  <2>2. CASE f # <<>>
    BY <1>0, <2>2, PartIs
  <2> QED BY <2>1, <2>2
<1>2. U!CharAt(text, q + 1) \in Behinds
  <2>1. CASE t = <<>>
    <3>1. r = q
      BY <2>1, PartEmpty
    <3> QED BY <1>1, <3>1 DEF Behinds
  <2>2. CASE t # <<>>
    BY <1>0, <2>2, PartIs DEF Behinds
  <2> QED BY <2>1, <2>2
<1> QED BY <1>1, <1>2

LEMMA TailTaken ==
  ASSUME NEW m, NEW text, Scan(m, text), NEW a \in BOOLEAN,
         NEW pa, IsPath(pa), NEW qu, IsQuery(qu), NEW fr, IsQuery(fr),
         NEW p \in Nat, NEW q \in Nat, q = p + Len(pa), Holds(text, p, pa),
         NEW r \in Nat, Part(text, q, "?", qu, r), Part(text, r, "#", fr, Len(text)),
         NEW s, NEW u, NEW h, NEW n, NEW j,
         m[p + 1] = U!Run(Parts(s, u, h, n, <<>>, <<>>, <<>>), j, Enter(U!CharAt(text, p + 1), a)),
         a /\ U!CharAt(text, p + 1) = "/" => j = p + 1
  PROVE  \E k : m[Len(text) + 1]
                  = U!Run(Parts(s, u, h, n, PathOf(a, pa), qu, fr), k, <<"final">>)
<1>0. text \in Seq(UrlChars) /\ qu \in Seq(UrlChars) /\ fr \in Seq(UrlChars) /\ Len(text) \in Nat
  BY QueryChars DEF Scan
<1>1. U!CharAt(text, q + 1) \in Behinds /\ U!CharAt(text, r + 1) \in {"#", "EOF"}
  BY <1>0, TailChars
<1> DEFINE v == Parts(s, u, h, n, <<>>, <<>>, <<>>)
           pb == PathOf(a, pa)
           v1 == Parts(s, u, h, n, pb, <<>>, <<>>)
           v2 == Parts(s, u, h, n, pb, qu, <<>>)
           v3 == Parts(s, u, h, n, pb, qu, fr)
<1>2. Puts(v1, v, "path", pb) /\ Puts(v2, v1, "query", qu) /\ Puts(v3, v2, "fragment", fr)
  BY PartsPut DEF Puts, PathOf
<1> HIDE DEF v1, v2, v3, v
<1>5. m[p + 1] = U!Run(v, j, Enter(U!CharAt(text, p + 1), a))
  BY DEF v
<1>6. PICK k1 : m[q + 1] = U!Run(v1, k1, RestPhase(U!CharAt(text, q + 1)))
  BY <1>1, <1>2, <1>5, PathTaken
<1>7. PICK k2 : m[r + 1] = U!Run(v2, k2, RestPhase(U!CharAt(text, r + 1)))
  BY <1>1, <1>2, <1>6, QueryTaken
<1>8. \E k : m[Len(text) + 1] = U!Run(v3, k, <<"final">>)
  BY <1>0, <1>2, <1>7, FragmentTaken
<1> QED BY <1>8 DEF v3

-----------------------------------------------------------------------------
\* The phases of a host and of a port; the digits of a port.
Ends == {"/"} \cup Behinds

LEMMA EndsAre ==
  ASSUME NEW c \in Ends
  PROVE  c \notin regchar /\ c \notin Digit /\ c # "%" /\ c # ":" /\ c # "@" /\ c # "["
BY Disjoint DEF Ends, Behinds, Delims

\* The phases of a host and a port that begin behind "//" and behind "@".
FirstPh(b, a) == IF b THEN <<"at", a>> ELSE <<"auth", a>>
HostPh(b, a) == IF b THEN <<"host", a>> ELSE <<"name", a>>
ColonPh(b, a) == IF b THEN <<"port0", a>> ELSE <<"colon", a>>
DigitsPh(b, a) == IF b THEN <<"port", a>> ELSE <<"digits", a>>

LEMMA PhasesLive ==
  ASSUME NEW a, NEW b
  PROVE  Live(FirstPh(b, a)) /\ Live(HostPh(b, a)) /\ Live(ColonPh(b, a)) /\ Live(DigitsPh(b, a))
BY DEF FirstPh, HostPh, ColonPh, DigitsPh, Live

LEMMA MarkedPct ==
  ASSUME NEW ph
  PROVE  U!Marked(U!Pct(ph)) = U!Do(<<"pct", 2, ph>>, <<"mark">>)
BY DEF U!Marked, U!Pct, U!Goto, U!Do

LEMMA HostSteps ==
  ASSUME NEW c, NEW a \in BOOLEAN, NEW b \in BOOLEAN
  PROVE  /\ c \in regchar => /\ U!Step(FirstPh(b, a), c) = U!Do(HostPh(b, a), <<"mark">>)
                             /\ U!Step(HostPh(b, a), c) = U!Goto(HostPh(b, a))
         /\ c = "%" => /\ U!Step(FirstPh(b, a), c) = U!Do(<<"pct", 2, HostPh(b, a)>>, <<"mark">>)
                       /\ U!Step(HostPh(b, a), c) = U!Pct(HostPh(b, a))
         /\ c = ":" => /\ U!Step(FirstPh(b, a), c) = U!Do(ColonPh(b, a), <<"mark", "host">>)
                       /\ U!Step(HostPh(b, a), c) = U!Do(ColonPh(b, a), <<"host">>)
         /\ c = "[" => U!Step(FirstPh(b, a), c) = U!Do(<<"literal", a, <<"literal">>>>, <<"mark">>)
         /\ c \in Ends => /\ U!Step(FirstPh(b, a), c) = U!EndAuthority(c, a, <<"mark", "host">>)
                          /\ U!Step(HostPh(b, a), c) = U!EndAuthority(c, a, <<"host">>)
                          /\ U!Step(DigitsPh(b, a), c) = U!EndAuthority(c, a, <<"port">>)
         /\ c \in Digit => /\ U!Step(ColonPh(b, a), c) = U!Do(DigitsPh(b, a), <<"mark">>)
                           /\ U!Step(DigitsPh(b, a), c) = U!Goto(DigitsPh(b, a))
<1>1. {"%", ":", "[", "@"} \cap regchar = {} /\ Digit \subseteq regchar
  BY Disjoint DEF Delims
<1> HIDE DEF regchar, Digit, Ends
<1>2. c \in Ends => c \notin regchar /\ c \notin Digit /\ c # "%" /\ c # ":" /\ c # "@" /\ c # "["
  BY EndsAre
<1>3. CASE b
  <2>1. FirstPh(b, a) = <<"at", a>> /\ HostPh(b, a) = <<"host", a>> /\ ColonPh(b, a) = <<"port0", a>>
        /\ DigitsPh(b, a) = <<"port", a>>
    BY <1>3 DEF FirstPh, HostPh, ColonPh, DigitsPh
  <2>2. /\ U!Step(FirstPh(b, a), c) = U!At(c, a) /\ U!Step(HostPh(b, a), c) = U!Host(c, a)
        /\ U!Step(ColonPh(b, a), c) = U!Port0(c, a) /\ U!Step(DigitsPh(b, a), c) = U!Port(c, a)
    BY <2>1, StepAuthority
  <2> DEFINE host == HostPh(b, a)
             colon == ColonPh(b, a)
             digits == DigitsPh(b, a)
  <2>3. host = <<"host", a>> /\ colon = <<"port0", a>> /\ digits = <<"port", a>>
    BY <2>1
  <2> HIDE DEF host, colon, digits
  <2>4. c \in regchar => /\ U!At(c, a) = U!Do(host, <<"mark">>) /\ U!Host(c, a) = U!Goto(host)
    BY <1>1, <2>3, Classes DEF U!At, U!Host
  <2>5. c = "%" => /\ U!At(c, a) = U!Do(<<"pct", 2, host>>, <<"mark">>) /\ U!Host(c, a) = U!Pct(host)
    BY <1>1, <2>3, Classes, MarkedPct DEF U!At, U!Host
  <2>6. c = ":" => /\ U!At(c, a) = U!Do(colon, <<"mark", "host">>) /\ U!Host(c, a) = U!Do(colon, <<"host">>)
    BY <1>1, <2>3, Classes DEF U!At, U!Host
  <2>7. c = "[" => U!At(c, a) = U!Do(<<"literal", a, <<"literal">>>>, <<"mark">>)
    BY <1>1, <2>3, Classes DEF U!At
  <2>8. c \in Ends => /\ U!At(c, a) = U!EndAuthority(c, a, <<"mark", "host">>)
                     /\ U!Host(c, a) = U!EndAuthority(c, a, <<"host">>)
                     /\ U!Port(c, a) = U!EndAuthority(c, a, <<"port">>)
    BY <1>1, <1>2, Classes DEF U!At, U!Host, U!Port
  <2>9. c \in Digit => /\ U!Port0(c, a) = U!Do(digits, <<"mark">>) /\ U!Port(c, a) = U!Goto(digits)
    BY <1>1, <2>3, Classes DEF U!Port0, U!Port
  <2> QED BY <2>2, <2>4, <2>5, <2>6, <2>7, <2>8, <2>9 DEF host, colon, digits
<1>4. CASE ~b
  <2>1. FirstPh(b, a) = <<"auth", a>> /\ HostPh(b, a) = <<"name", a>> /\ ColonPh(b, a) = <<"colon", a>>
        /\ DigitsPh(b, a) = <<"digits", a>>
    BY <1>4 DEF FirstPh, HostPh, ColonPh, DigitsPh
  <2>2. /\ U!Step(FirstPh(b, a), c) = U!Authority(c, a) /\ U!Step(HostPh(b, a), c) = U!Name(c, a)
        /\ U!Step(ColonPh(b, a), c) = U!Colon(c, a) /\ U!Step(DigitsPh(b, a), c) = U!Digits(c, a)
    BY <2>1, StepAuthority
  <2> DEFINE host == HostPh(b, a)
             colon == ColonPh(b, a)
             digits == DigitsPh(b, a)
  <2>3. host = <<"name", a>> /\ colon = <<"colon", a>> /\ digits = <<"digits", a>>
    BY <2>1
  <2> HIDE DEF host, colon, digits
  <2>4. c \in regchar => /\ U!Authority(c, a) = U!Do(host, <<"mark">>) /\ U!Name(c, a) = U!Goto(host)
    BY <1>1, <2>3, Classes DEF U!Authority, U!Name
  <2>5. c = "%" => /\ U!Authority(c, a) = U!Do(<<"pct", 2, host>>, <<"mark">>) /\ U!Name(c, a) = U!Pct(host)
    BY <1>1, <2>3, Classes, MarkedPct DEF U!Authority, U!Name
  <2>6. c = ":" => /\ U!Authority(c, a) = U!Do(colon, <<"mark", "host">>) /\ U!Name(c, a) = U!Do(colon, <<"host">>)
    BY <1>1, <2>3, Classes DEF U!Authority, U!Name
  <2>7. c = "[" => U!Authority(c, a) = U!Do(<<"literal", a, <<"literal">>>>, <<"mark">>)
    BY <1>1, <2>3, Classes DEF U!Authority
  <2>8. c \in Ends => /\ U!Authority(c, a) = U!EndAuthority(c, a, <<"mark", "host">>)
                     /\ U!Name(c, a) = U!EndAuthority(c, a, <<"host">>)
                     /\ U!Digits(c, a) = U!EndAuthority(c, a, <<"port">>)
    BY <1>1, <1>2, Classes DEF U!Authority, U!Name, U!Digits
  <2>9. c \in Digit => /\ U!Colon(c, a) = U!Do(digits, <<"mark">>) /\ U!Digits(c, a) = U!Goto(digits)
    BY <1>1, <2>3, Classes DEF U!Colon, U!Digits
  <2> QED BY <2>2, <2>4, <2>5, <2>6, <2>7, <2>8, <2>9 DEF host, colon, digits
<1> QED BY <1>3, <1>4

-----------------------------------------------------------------------------
\* What atoi makes of digits and what follows them.
LEMMA DigitsCounted ==
  ASSUME NEW s \in Seq(UrlChars), NEW n \in 0 .. Len(s), \A i \in 1 .. n : s[i] \in Digit,
         n < Len(s) => s[n + 1] \notin Digit
  PROVE  DigitsOf(s) = n
<1> DEFINE Is(k) == /\ \A i \in 1 .. k : s[i] \in Digit
                    /\ k < Len(s) => s[k + 1] \notin Digit
<1>1. Is(n)
  OBVIOUS
<1>2. ASSUME NEW k \in 0 .. Len(s), Is(k) PROVE k = n
  <2>1. CASE k < n
    <3>1. k + 1 \in 1 .. n /\ k < Len(s)
      BY <2>1
    <3> QED BY <1>2, <3>1
  <2>2. CASE n < k
    <3>1. n + 1 \in 1 .. k /\ n < Len(s)
      BY <2>2
    <3> QED BY <1>2, <3>1
  <2> QED BY <2>1, <2>2
<1>3. DigitsOf(s) = CHOOSE k \in 0 .. Len(s) : Is(k)
  BY DEF DigitsOf
<1> HIDE DEF Is
<1> QED BY <1>1, <1>2, <1>3

-----------------------------------------------------------------------------
\* The sum atoi makes of the first n digits.
Summed(f, s, n) == f = [i \in 0 .. n |-> IF i = 0 THEN 0 ELSE 10 * f[i - 1] + Value(s[i])]

LEMMA SumExists == ASSUME NEW s, NEW n \in Nat PROVE \E f : Summed(f, s, n)
<1> DEFINE Next1(k, x) == 10 * x + Value(s[k])
           Good(g, k) == g = [j \in 0 .. k |-> IF j = 0 THEN 0 ELSE Next1(j, g[j - 1])]
           Bad == {k \in Nat : ~ \E g : Good(g, k)}
<1>1. \A k : \A g : Good(g, k) <=> Summed(g, s, k)
  BY DEF Summed
<1> HIDE DEF Next1, Good
<1>2. SUFFICES ASSUME Bad # {} PROVE FALSE
  BY <1>1
<1>3. PICK x \in Bad : x \in Nat /\ \A k \in Bad : x <= k
  <2> HIDE DEF Bad
  <2>1. Bad \in SUBSET Nat
    BY DEF Bad
  <2> QED BY <1>2, <2>1, LeastExists
<1>4. CASE x = 0
  <2>1. Good([j \in 0 .. 0 |-> 0], 0)
    BY DEF Good
  <2> QED BY <1>3, <1>4, <2>1
<1>5. CASE x # 0
  <2>1. x - 1 \in Nat /\ x - 1 \notin Bad
    <3> HIDE DEF Bad
    <3> QED BY <1>3, <1>5
  <2>2. PICK g : Good(g, x - 1)
    BY <2>1
  <2> DEFINE h == [k \in 0 .. x |-> IF k = x THEN Next1(x, g[x - 1]) ELSE g[k]]
  <2>3. ASSUME NEW k \in 0 .. x
        PROVE  h[k] = IF k = 0 THEN 0 ELSE Next1(k, h[k - 1])
    <3>1. CASE k = x
      <4>1. h[k - 1] = g[x - 1] /\ h[k] = Next1(x, g[x - 1])
        BY <1>5, <3>1
      <4> QED BY <1>5, <3>1, <4>1
    <3>2. CASE k # x /\ k = 0
      <4>1. h[k] = g[0]
        BY <3>2
      <4> QED BY <2>1, <2>2, <3>2, <4>1 DEF Good
    <3>3. CASE k # x /\ k # 0
      <4>1. h[k] = g[k] /\ h[k - 1] = g[k - 1] /\ k \in 0 .. x - 1
        BY <3>3
      <4> HIDE DEF h
      <4> QED BY <2>2, <3>3, <4>1 DEF Good
    <3> QED BY <3>1, <3>2, <3>3
  <2>4. Good(h, x)
    <3>1. h = [k \in 0 .. x |-> h[k]]
      OBVIOUS
    <3> HIDE DEF h
    <3> QED BY <2>3, <3>1 DEF Good
  <2> QED BY <1>3, <2>4
<1> QED BY <1>4, <1>5

LEMMA NumberIs ==
  ASSUME NEW s, NEW n \in Nat, DigitsOf(s) = n
  PROVE  \E f : Summed(f, s, n) /\ Number(s) = f[n]
<1>1. Number(s) = LET f == CHOOSE f : Summed(f, s, n) IN f[n]
  BY DEF Number, Summed
<1> QED BY <1>1, SumExists

LEMMA SummedRound ==
  ASSUME NEW f, NEW s, NEW n \in Nat, Summed(f, s, n)
  PROVE  f[0] = 0 /\ \A i \in 1 .. n : f[i] = 10 * f[i - 1] + Value(s[i])
<1>1. f[0] = 0
  BY DEF Summed
<1>2. ASSUME NEW i \in 1 .. n PROVE f[i] = 10 * f[i - 1] + Value(s[i])
  <2>1. i \in 0 .. n /\ i # 0
    OBVIOUS
  <2> QED BY <2>1 DEF Summed
<1> QED BY <1>1, <1>2

\* Texts that begin with the same digits have the same sums.
Alike(s, t, n) == \A i \in 1 .. n : s[i] = t[i]

LEMMA SumsAgree ==
  ASSUME NEW s, NEW t, NEW k \in Nat, NEW l \in Nat, NEW n \in Nat, n <= k, n <= l,
         NEW f, NEW g, Summed(f, s, k), Summed(g, t, l), Alike(s, t, n)
  PROVE  f[n] = g[n]
<1> DEFINE Bad == {i \in Nat : i <= n /\ f[i] # g[i]}
<1>1. SUFFICES ASSUME Bad # {} PROVE FALSE
  OBVIOUS
<1>2. PICK x \in Bad : \A i \in Bad : x <= i
  <2> HIDE DEF Bad
  <2>1. Bad \in SUBSET Nat
    BY DEF Bad
  <2> QED BY <1>1, <2>1, LeastExists
<1>3. f[0] = 0 /\ g[0] = 0
  BY SummedRound
<1>4. x - 1 \in Nat /\ x - 1 \notin Bad /\ x \in 1 .. n
  BY <1>2, <1>3
<1>5. f[x - 1] = g[x - 1]
  BY <1>4
<1> HIDE DEF Bad
<1>6. f[x] = 10 * f[x - 1] + Value(s[x]) /\ g[x] = 10 * g[x - 1] + Value(t[x])
  <2>1. x \in 1 .. k /\ x \in 1 .. l
    BY <1>4
  <2> QED BY <2>1, SummedRound
<1>7. s[x] = t[x]
  BY <1>4 DEF Alike
<1> QED BY <1>2, <1>4, <1>5, <1>6, <1>7 DEF Bad

LEMMA NumberSame == ASSUME NEW s PROVE U!Number(s) = Number(s)
BY DEF U!Number, U!DigitsOf, U!Value, U!Digit, Number, DigitsOf, Value, Digit

LEMMA DigitValue == ASSUME NEW c \in Digit PROVE Value(c) \in 0 .. 9
<1>1. \E d \in 0 .. 9 : <<"0", "1", "2", "3", "4", "5", "6", "7", "8", "9">>[d + 1] = c
  BY DEF Digit
<1> QED BY <1>1 DEF Value

LEMMA DigitsAre ==
  ASSUME NEW t \in Seq(Digit)
  PROVE  t \in Seq(UrlChars) /\ Len(t) \in Nat /\ DigitsOf(t) = Len(t)
<1>1. Digit \subseteq UrlChars
  BY Disjoint DEF UrlChars
<1> HIDE DEF Digit, UrlChars
<1>2. t \in Seq(UrlChars) /\ Len(t) \in 0 .. Len(t) /\ \A i \in 1 .. Len(t) : t[i] \in Digit
  BY <1>1
<1> QED BY <1>2, DigitsCounted

\* What is behind the digits does not count.
LEMMA NumberHead ==
  ASSUME NEW s \in Seq(UrlChars), NEW t \in Seq(Digit), Len(t) <= Len(s),
         \A i \in 1 .. Len(t) : s[i] = t[i], Len(t) < Len(s) => s[Len(t) + 1] \notin Digit
  PROVE  Number(s) = Number(t)
<1> HIDE DEF Digit, UrlChars
<1> PICK n \in Nat : n = Len(t)
  OBVIOUS
<1>1. n \in 0 .. Len(s) /\ \A i \in 1 .. n : s[i] \in Digit
  OBVIOUS
<1>2. DigitsOf(s) = n
  BY <1>1, DigitsCounted
<1>3. DigitsOf(t) = n
  BY DigitsAre
<1>4. PICK f : Summed(f, s, n) /\ Number(s) = f[n]
  BY <1>2, NumberIs
<1>5. PICK g : Summed(g, t, n) /\ Number(t) = g[n]
  BY <1>3, NumberIs
<1>6. Alike(s, t, n)
  BY DEF Alike
<1>7. f[n] = g[n]
  BY <1>4, <1>5, <1>6, SumsAgree
<1> QED BY <1>4, <1>5, <1>7

LEMMA NumberOne ==
  ASSUME NEW t \in Seq(Digit), NEW c \in Digit
  PROVE  Number(Append(t, c)) = 10 * Number(t) + Value(c)
<1> DEFINE s == Append(t, c)
<1> HIDE DEF Digit
<1>1. s \in Seq(Digit) /\ Len(s) = Len(t) + 1 /\ Len(t) \in Nat /\ s[Len(t) + 1] = c
      /\ \A i \in 1 .. Len(t) : s[i] = t[i]
  OBVIOUS
<1> PICK n \in Nat : n = Len(t)
  OBVIOUS
<1> HIDE DEF s
<1>2. DigitsOf(s) = n + 1 /\ DigitsOf(t) = n
  BY <1>1, DigitsAre
<1>3. PICK f : Summed(f, s, n + 1) /\ Number(s) = f[n + 1]
  BY <1>2, NumberIs
<1>4. PICK g : Summed(g, t, n) /\ Number(t) = g[n]
  BY <1>2, NumberIs
<1>5. f[n] = g[n]
  <2>1. Alike(s, t, n)
    BY <1>1 DEF Alike
  <2> PICK k \in Nat : k = n + 1 /\ n <= k
    OBVIOUS
  <2>2. Summed(f, s, k) /\ Summed(g, t, n) /\ n <= k /\ n <= n
    BY <1>3, <1>4
  <2> QED BY <2>1, <2>2, SumsAgree
<1>6. n + 1 \in 1 .. n + 1
  OBVIOUS
<1>7. f[n + 1] = 10 * f[(n + 1) - 1] + Value(s[n + 1])
  BY <1>3, <1>6, SummedRound
<1> QED BY <1>1, <1>3, <1>4, <1>5, <1>7 DEF s

LEMMA NumberNone == Number(<<>>) = 0
<1>1. <<>> \in Seq(Digit) /\ Len(<<>>) = 0
  OBVIOUS
<1>2. DigitsOf(<<>>) = 0
  <2>1. DigitsOf(<<>>) = Len(<<>>)
    BY <1>1, DigitsAre
  <2> QED BY <1>1, <2>1
<1>3. PICK f : Summed(f, <<>>, 0) /\ Number(<<>>) = f[0]
  BY <1>2, NumberIs
<1> QED BY <1>3, SummedRound

-----------------------------------------------------------------------------
\* std::to_string and atoi: the digits of a number name that number.
DigitOf(j) == <<"0", "1", "2", "3", "4", "5", "6", "7", "8", "9">>[j + 1]

LEMMA DigitOfIs ==
  ASSUME NEW j \in 0 .. 9
  PROVE  DigitOf(j) \in Digit /\ Value(DigitOf(j)) = j
<1>1. DigitOf(j) \in Digit
  BY DEF DigitOf, Digit
<1>2. \A d \in 0 .. 9 : DigitOf(d) = DigitOf(j) => d = j
  BY DEF DigitOf
<1>3. Value(DigitOf(j)) = CHOOSE d \in 0 .. 9 : DigitOf(d) = DigitOf(j)
  BY DEF Value, DigitOf
<1> HIDE DEF DigitOf
<1> QED BY <1>1, <1>2, <1>3

\* std::to_string of the numbers up to n.
Written(f, n) ==
  f = [k \in 0 .. n |-> IF k < 10 THEN <<DigitOf(k)>> ELSE Append(f[k \div 10], DigitOf(k % 10))]

LEMMA Tenth ==
  ASSUME NEW k \in Nat
  PROVE  /\ k \div 10 \in Nat /\ k % 10 \in 0 .. 9 /\ k = 10 * (k \div 10) + (k % 10)
         /\ k >= 10 => k \div 10 < k /\ k \div 10 >= 1
OBVIOUS

LEMMA WrittenExists == ASSUME NEW n \in Nat PROVE \E f : Written(f, n)
<1> DEFINE Next1(k, x) == IF k < 10 THEN <<DigitOf(k)>> ELSE Append(x, DigitOf(k % 10))
           Good(g, k) == g = [j \in 0 .. k |-> Next1(j, g[j \div 10])]
           Bad == {k \in Nat : ~ \E g : Good(g, k)}
<1>1. \A k : \A g : Good(g, k) <=> Written(g, k)
  BY DEF Written
<1>2. \A k \in Nat : k < 10 => \A x, y : Next1(k, x) = Next1(k, y)
  OBVIOUS
<1> HIDE DEF Next1, Good
<1>3. SUFFICES ASSUME Bad # {} PROVE FALSE
  BY <1>1
<1>4. PICK x \in Bad : x \in Nat /\ \A k \in Bad : x <= k
  <2> HIDE DEF Bad
  <2>1. Bad \in SUBSET Nat
    BY DEF Bad
  <2> QED BY <1>3, <2>1, LeastExists
<1>5. CASE x = 0
  <2> DEFINE h == [j \in 0 .. 0 |-> Next1(0, 0)]
  <2>1. ASSUME NEW j \in 0 .. 0 PROVE h[j] = Next1(j, h[j \div 10])
    BY <1>2
  <2>2. h = [j \in 0 .. 0 |-> h[j]]
    OBVIOUS
  <2> HIDE DEF h
  <2>3. Good(h, 0)
    BY <2>1, <2>2 DEF Good
  <2> QED BY <1>4, <1>5, <2>3
<1>6. CASE x # 0
  <2>1. x - 1 \in Nat /\ x - 1 \notin Bad
    <3> HIDE DEF Bad
    <3> QED BY <1>4, <1>6
  <2>2. PICK g : Good(g, x - 1)
    BY <2>1
  <2> DEFINE h == [k \in 0 .. x |-> IF k = x THEN Next1(x, g[x \div 10]) ELSE g[k]]
  <2>3. ASSUME NEW k \in 0 .. x
        PROVE  h[k] = Next1(k, h[k \div 10])
    <3>1. CASE k = x /\ k >= 10
      <4>1. k \div 10 \in 0 .. x - 1
        BY <3>1, Tenth
      <4>2. h[k \div 10] = g[k \div 10] /\ h[k] = Next1(x, g[x \div 10])
        BY <3>1, <4>1
      <4> QED BY <3>1, <4>2
    <3>2. CASE k = x /\ k < 10
      <4>1. h[k] = Next1(x, g[x \div 10])
        BY <3>2
      <4> HIDE DEF h
      <4> QED BY <1>2, <1>4, <3>2, <4>1
    <3>3. CASE k # x /\ k >= 10
      <4>1. k \in 0 .. x - 1 /\ k \in Nat
        BY <3>3
      <4>2. k \div 10 \in 0 .. x - 1
        BY <3>3, <4>1, Tenth
      <4>3. h[k] = g[k] /\ h[k \div 10] = g[k \div 10]
        BY <4>1, <4>2
      <4> HIDE DEF h
      <4> QED BY <2>2, <4>1, <4>3 DEF Good
    <3>4. CASE k # x /\ k < 10
      <4>1. k \in 0 .. x - 1 /\ k \in Nat
        BY <3>4
      <4>2. h[k] = g[k]
        BY <4>1
      <4> HIDE DEF h
      <4>3. g[k] = Next1(k, g[k \div 10])
        BY <2>2, <4>1 DEF Good
      <4> QED BY <1>2, <3>4, <4>1, <4>2, <4>3
    <3> QED BY <3>1, <3>2, <3>3, <3>4
  <2>4. Good(h, x)
    <3>1. h = [k \in 0 .. x |-> h[k]]
      OBVIOUS
    <3> HIDE DEF h
    <3> QED BY <2>3, <3>1 DEF Good
  <2> QED BY <1>4, <2>4
<1> QED BY <1>5, <1>6

LEMMA WrittenRound ==
  ASSUME NEW f, NEW n \in Nat, Written(f, n), NEW k \in 0 .. n
  PROVE  f[k] = IF k < 10 THEN <<DigitOf(k)>> ELSE Append(f[k \div 10], DigitOf(k % 10))
BY DEF Written

Names(s, k) == s \in Seq(Digit) /\ s # <<>> /\ Number(s) = k

LEMMA NamesOne ==
  ASSUME NEW j \in 0 .. 9
  PROVE  Names(<<DigitOf(j)>>, j)
<1>1. DigitOf(j) \in Digit /\ Value(DigitOf(j)) = j
  BY DigitOfIs
<1> HIDE DEF Digit
<1>2. <<>> \in Seq(Digit)
  OBVIOUS
<1>3. Append(<<>>, DigitOf(j)) = <<DigitOf(j)>>
  OBVIOUS
<1>4. Number(Append(<<>>, DigitOf(j))) = 10 * Number(<<>>) + Value(DigitOf(j))
  BY <1>1, <1>2, NumberOne
<1>5. Number(<<DigitOf(j)>>) = j
  BY <1>1, <1>3, <1>4, NumberNone
<1>6. <<DigitOf(j)>> \in Seq(Digit) /\ <<DigitOf(j)>> # <<>>
  BY <1>1
<1> QED BY <1>5, <1>6 DEF Names

LEMMA NamesMore ==
  ASSUME NEW s, NEW i \in Nat, Names(s, i), NEW j \in 0 .. 9
  PROVE  Names(Append(s, DigitOf(j)), 10 * i + j)
<1>1. DigitOf(j) \in Digit /\ Value(DigitOf(j)) = j
  BY DigitOfIs
<1> HIDE DEF Digit
<1>2. s \in Seq(Digit) /\ Number(s) = i
  BY DEF Names
<1>3. Number(Append(s, DigitOf(j))) = 10 * i + j
  BY <1>1, <1>2, NumberOne
<1>4. Append(s, DigitOf(j)) \in Seq(Digit) /\ Append(s, DigitOf(j)) # <<>>
  BY <1>1, <1>2
<1> QED BY <1>3, <1>4 DEF Names

LEMMA DecimalIs == ASSUME NEW n \in Nat PROVE Names(U!Decimal(n), n)
<1>1. U!Decimal(n) = LET f == CHOOSE f : Written(f, n) IN f[n]
  BY DEF U!Decimal, Written, DigitOf
<1>2. PICK f : Written(f, n) /\ U!Decimal(n) = f[n]
  BY <1>1, WrittenExists
<1> DEFINE Bad == {k \in Nat : k <= n /\ ~Names(f[k], k)}
<1>3. SUFFICES ASSUME Bad # {} PROVE FALSE
  BY <1>2
<1>4. PICK x \in Bad : x \in Nat /\ \A k \in Bad : x <= k
  <2> HIDE DEF Bad
  <2>1. Bad \in SUBSET Nat
    BY DEF Bad
  <2> QED BY <1>3, <2>1, LeastExists
<1>5. x \in 0 .. n
  BY <1>4
<1>6. CASE x < 10
  <2>1. f[x] = <<DigitOf(x)>>
    BY <1>2, <1>5, <1>6, WrittenRound
  <2>2. x \in 0 .. 9
    BY <1>4, <1>6
  <2>3. Names(f[x], x)
    BY <2>1, <2>2, NamesOne
  <2> QED BY <1>4, <2>3
<1>7. CASE x >= 10
  <2>1. PICK i \in Nat, j \in 0 .. 9 : i = x \div 10 /\ j = x % 10 /\ x = 10 * i + j /\ i < x
    BY <1>4, <1>7, Tenth
  <2>2. f[x] = Append(f[i], DigitOf(j))
    <3>1. f[x] = IF x < 10 THEN <<DigitOf(x)>> ELSE Append(f[x \div 10], DigitOf(x % 10))
      BY <1>2, <1>5, WrittenRound
    <3>2. ~(x < 10)
      BY <1>4, <1>7
    <3>3. f[x] = Append(f[x \div 10], DigitOf(x % 10))
      BY <3>1, <3>2, Zenon
    <3> QED BY <2>1, <3>3, Zenon
  <2>3. i \notin Bad
    <3> HIDE DEF Bad
    <3> QED BY <1>4, <2>1
  <2>4. Names(f[i], i)
    BY <1>5, <2>1, <2>3
  <2>5. Names(f[x], x)
    BY <2>1, <2>2, <2>4, NamesMore
  <2> QED BY <1>4, <2>5
<1> QED BY <1>4, <1>6, <1>7

-----------------------------------------------------------------------------
\* A port.
LEMMA FromIs ==
  ASSUME NEW text \in Seq(UrlChars), NEW p \in Nat, NEW k \in Nat, k = p + 1, k <= Len(text)
  PROVE  /\ From(text, k) \in Seq(UrlChars) /\ Len(From(text, k)) = Len(text) - p
         /\ \A i \in 1 .. Len(text) - p : From(text, k)[i] = text[p + i]
<1> HIDE DEF UrlChars
<1>1. Len(text) \in Nat /\ \A i \in 1 .. Len(text) : text[i] \in UrlChars
  OBVIOUS
<1> QED BY <1>1 DEF From

LEMMA PortNumber ==
  ASSUME NEW text \in Seq(UrlChars), NEW t \in Seq(Digit), t # <<>>, NEW p \in Nat, Holds(text, p, t),
         NEW k \in Nat, k = p + 1, NEW n \in Nat, n = p + Len(t) + 1, U!CharAt(text, n) \notin Digit
  PROVE  U!Number(From(text, k)) = Number(t)
<1> HIDE DEF UrlChars, Digit
<1> PICK s : s = From(text, k)
  OBVIOUS
<1>1. Len(t) \in Nat /\ Len(t) >= 1 /\ Len(text) \in Nat /\ p + Len(t) <= Len(text)
  BY DEF Holds
<1>2. s \in Seq(UrlChars) /\ Len(s) = Len(text) - p
      /\ \A i \in 1 .. Len(text) - p : s[i] = text[p + i]
  BY <1>1, FromIs
<1>3. \A i \in 1 .. Len(t) : s[i] = t[i]
  <2> TAKE i \in 1 .. Len(t)
  <2>0. i \in 1 .. Len(text) - p
    BY <1>1
  <2>1. s[i] = text[p + i]
    BY <1>2, <2>0
  <2> QED BY <2>1 DEF Holds
<1>4. Len(t) < Len(s) => s[Len(t) + 1] \notin Digit
  <2> HAVE Len(t) < Len(s)
  <2>1. s[Len(t) + 1] = text[p + (Len(t) + 1)] /\ p + (Len(t) + 1) = n /\ n <= Len(text)
    BY <1>1, <1>2
  <2> QED BY <2>1 DEF U!CharAt
<1>6. Len(t) <= Len(s)
  BY <1>1, <1>2
<1>5. Number(s) = Number(t)
  BY <1>2, <1>3, <1>4, <1>6, NumberHead
<1> QED BY <1>5, NumberSame

LEMMA DigitStays ==
  ASSUME NEW t \in Seq(Digit), NEW a \in BOOLEAN, NEW b \in BOOLEAN
  PROVE  /\ t \in Seq(UrlChars) /\ Escaped(t) /\ Stays(DigitsPh(b, a), t, 1, Len(t))
         /\ t # <<>> => Marks(ColonPh(b, a), DigitsPh(b, a), t[1])
<1> HIDE DEF Digit, UrlChars
<1>1. \A i \in 1 .. Len(t) : t[i] \in Digit /\ t[i] # "%"
  <2>1. "%" \notin Digit
    BY Disjoint DEF Delims
  <2> QED BY <2>1
<1>2. t \in Seq(UrlChars)
  BY DigitsAre
<1>3. Escaped(t)
  BY <1>1 DEF Escaped
<1>4. Stays(DigitsPh(b, a), t, 1, Len(t))
  <2> SUFFICES ASSUME NEW x \in 1 + 1 .. Len(t)
               PROVE  U!Step(DigitsPh(b, a), t[x]) = IF t[x] = "%" THEN U!Pct(DigitsPh(b, a))
                                                     ELSE U!Goto(DigitsPh(b, a))
    BY DEF Stays
  <2>1. t[x] \in Digit /\ t[x] # "%"
    BY <1>1
  <2>2. U!Step(DigitsPh(b, a), t[x]) = U!Goto(DigitsPh(b, a))
    BY <2>1, HostSteps
  <2> QED BY <2>1, <2>2
<1>5. ASSUME t # <<>> PROVE Marks(ColonPh(b, a), DigitsPh(b, a), t[1])
  <2>1. t[1] \in Digit /\ t[1] # "%"
    <3>1. 1 \in 1 .. Len(t)
      BY <1>5
    <3> QED BY <1>1, <3>1
  <2>2. U!Step(ColonPh(b, a), t[1]) = U!Do(DigitsPh(b, a), <<"mark">>)
    BY <2>1, HostSteps
  <2> QED BY <2>1, <2>2 DEF Marks
<1> QED BY <1>2, <1>3, <1>4, <1>5

\* The authority has ended at the character n, and the Uri is v.
AuthorityDone(m, text, n, a, v) ==
  \E j : /\ m[n] = U!Run(v, j, Enter(U!CharAt(text, n), a))
         /\ a /\ U!CharAt(text, n) = "/" => j = n

LEMMA PortTaken ==
  ASSUME NEW m, NEW text, Scan(m, text), NEW t \in Seq(Digit), t # <<>>, NEW p \in Nat, Holds(text, p, t),
         NEW a \in BOOLEAN, NEW b \in BOOLEAN, NEW u, NEW j0, m[p] = U!Run(u, j0, ColonPh(b, a)),
         NEW n \in Nat, n = p + Len(t) + 1, U!CharAt(text, n) \in Ends,
         NEW v, v = Put(u, "port", Number(t)), Put(v, "path", <<>>) = v
  PROVE  AuthorityDone(m, text, n, a, v)
<1> HIDE DEF Digit, UrlChars
<1> PICK k \in Nat : k = p + 1
  OBVIOUS
<1> PICK c \in Ends : c = U!CharAt(text, n)
  OBVIOUS
<1> DEFINE ph == DigitsPh(b, a)
<1>1. Live(ph) /\ Live(ColonPh(b, a))
  BY PhasesLive
<1>2. /\ t \in Seq(UrlChars) /\ Escaped(t) /\ Stays(ph, t, 1, Len(t))
      /\ Marks(ColonPh(b, a), ph, t[1])
  BY DigitStays
<1>3. U!Step(ph, c) = U!EndAuthority(c, a, <<"port">>)
  BY HostSteps
<1> HIDE DEF ph
<1>4. m[n] = U!TakeChar(U!Run(u, k, ph), text, n)
  <2> PICK first : first = ColonPh(b, a)
    OBVIOUS
  <2>1. m[p] = U!Run(u, j0, first) /\ Live(first) /\ Marks(first, ph, t[1])
    BY <1>1, <1>2
  <2> QED BY <1>1, <1>2, <2>1, PartRead
<1>5. c \notin Digit
  BY EndsAre
<1>6. text \in Seq(UrlChars) /\ n # k /\ n # 0
  <2>1. Len(t) \in Nat /\ Len(t) >= 1
    OBVIOUS
  <2> QED BY <2>1 DEF Scan
<1>7. U!Number(From(text, k)) = Number(t)
  BY <1>5, <1>6, PortNumber
<1>8. Acts(u, k, <<"port">>, text, n, v)
  BY <1>6, <1>7, ActsPort
<1> DEFINE acts == <<"port">>
<1>9. acts \in Seq({"port"}) /\ c \in {"/"} \cup Behinds
  BY DEF Ends
<1>10. U!Step(ph, c) = U!EndAuthority(c, a, acts) /\ Acts(u, k, acts, text, n, v)
  BY <1>3, <1>8
<1> HIDE DEF acts
<1>11. \E j : /\ U!TakeChar(U!Run(u, k, ph), text, n) = U!Run(v, j, Enter(c, a))
              /\ a /\ c = "/" => j = n
  BY <1>1, <1>6, <1>9, <1>10, AuthorityEnds
<1> QED BY <1>4, <1>11 DEF AuthorityDone

-----------------------------------------------------------------------------
\* A host that is a name.
\* The host t is read, but for the action of the character behind it.
HostBy(m, text, n, a, u, v, k, ph, b1, acts) ==
  /\ b1 \in BOOLEAN /\ acts \in Seq({"mark", "host"})
  /\ Live(ph) /\ m[n] = U!TakeChar(U!Run(u, k, ph), text, n)
  /\ U!Step(ph, ":") = U!Do(ColonPh(b1, a), acts)
  /\ \A c \in Ends : U!Step(ph, c) = U!EndAuthority(c, a, acts)
  /\ Acts(u, k, acts, text, n, v)
HostDone(m, text, n, a, u, v) == \E k, ph, b1, acts : HostBy(m, text, n, a, u, v, k, ph, b1, acts)

\* The host was read and a ":" behind it, the Uri is v.
AtColon(m, n, a, v) == \/ \E j : m[n] = U!Run(v, j, ColonPh(TRUE, a))
                       \/ \E j : m[n] = U!Run(v, j, ColonPh(FALSE, a))

LEMMA HostColon ==
  ASSUME NEW m, NEW text, NEW n, NEW a \in BOOLEAN, NEW u, NEW v,
         HostDone(m, text, n, a, u, v), U!CharAt(text, n) = ":"
  PROVE  AtColon(m, n, a, v)
<1>0. PICK k, ph, b1, acts : HostBy(m, text, n, a, u, v, k, ph, b1, acts)
  BY DEF HostDone
<1>1. /\ b1 \in BOOLEAN /\ acts \in Seq({"mark", "host"})
      /\ Live(ph) /\ m[n] = U!TakeChar(U!Run(u, k, ph), text, n)
      /\ U!Step(ph, ":") = U!Do(ColonPh(b1, a), acts)
      /\ Acts(u, k, acts, text, n, v)
  BY <1>0 DEF HostBy
<1> DEFINE to == ColonPh(b1, a)
<1>2. Live(to)
  BY PhasesLive
<1> HIDE DEF to
<1>3. U!Step(ph, ":") = U!Do(to, acts)
  BY <1>1 DEF to
<1>4. m[n] = U!RunActs(U!Run(u, k, to), acts, text, n)
  BY <1>1, <1>3, Taken
<1>5. \E j : U!RunActs(U!Run(u, k, to), acts, text, n) = U!Run(v, j, to)
  BY <1>1, <1>2 DEF Acts
<1>6. PICK j : m[n] = U!Run(v, j, to)
  BY <1>4, <1>5
<1>7. m[n] = U!Run(v, j, ColonPh(b1, a))
  BY <1>6 DEF to
<1>8. CASE b1 = TRUE
  BY <1>7, <1>8 DEF AtColon
<1>9. CASE b1 = FALSE
  BY <1>7, <1>9 DEF AtColon
<1> QED BY <1>1, <1>8, <1>9

LEMMA HostEnds ==
  ASSUME NEW m, NEW text, NEW n \in Nat, n # 0, NEW a \in BOOLEAN, NEW u, NEW v,
         HostDone(m, text, n, a, u, v), U!CharAt(text, n) \in Ends, Put(v, "path", <<>>) = v
  PROVE  AuthorityDone(m, text, n, a, v)
<1> PICK c \in Ends : c = U!CharAt(text, n)
  OBVIOUS
<1>0. PICK k, ph, b1, acts : HostBy(m, text, n, a, u, v, k, ph, b1, acts)
  BY DEF HostDone
<1>1. /\ acts \in Seq({"mark", "host"})
      /\ Live(ph) /\ m[n] = U!TakeChar(U!Run(u, k, ph), text, n)
      /\ U!Step(ph, c) = U!EndAuthority(c, a, acts)
      /\ Acts(u, k, acts, text, n, v)
  BY <1>0 DEF HostBy
<1>2. c \in {"/"} \cup Behinds
  BY DEF Ends
<1>3. \E j : /\ U!TakeChar(U!Run(u, k, ph), text, n) = U!Run(v, j, Enter(c, a))
             /\ a /\ c = "/" => j = n
  BY <1>1, <1>2, AuthorityEnds
<1> QED BY <1>1, <1>3 DEF AuthorityDone

LEMMA HostEmpty ==
  ASSUME NEW m, NEW text, Scan(m, text), NEW p \in Nat, p <= Len(text), NEW a \in BOOLEAN, NEW b \in BOOLEAN,
         NEW u, NEW j0, m[p] = U!Run(u, j0, FirstPh(b, a)), NEW n \in Nat, n = p + 1
  PROVE  HostDone(m, text, n, a, u, Put(u, "host", <<>>))
<1> PICK v : v = Put(u, "host", <<>>)
  OBVIOUS
<1> DEFINE ph == FirstPh(b, a)
<1>0. p \in 0 .. Len(text) /\ n # 0
  OBVIOUS
<1>1. m[n] = U!TakeChar(U!Run(u, j0, ph), text, n)
  <2>1. m[p + 1] = U!TakeChar(m[p], text, p + 1)
    BY <1>0, ScanTo
  <2> QED BY <2>1
<1>2. Live(ph)
  BY PhasesLive
<1>3. U!Step(ph, ":") = U!Do(ColonPh(b, a), <<"mark", "host">>)
      /\ \A c \in Ends : U!Step(ph, c) = U!EndAuthority(c, a, <<"mark", "host">>)
  BY HostSteps
<1>4. Acts(u, j0, <<"mark", "host">>, text, n, v)
  BY <1>0, ActsNoHost
<1> DEFINE acts == <<"mark", "host">>
<1>5. acts \in Seq({"mark", "host"})
  OBVIOUS
<1> HIDE DEF ph
<1>6. /\ U!Step(ph, ":") = U!Do(ColonPh(b, a), acts)
      /\ \A c \in Ends : U!Step(ph, c) = U!EndAuthority(c, a, acts)
      /\ Acts(u, j0, acts, text, n, v)
  BY <1>3, <1>4
<1> HIDE DEF acts
<1>7. HostBy(m, text, n, a, u, v, j0, ph, b, acts)
  BY <1>1, <1>2, <1>5, <1>6 DEF HostBy
<1> QED BY <1>7 DEF HostDone

LEMMA HostSaves ==
  ASSUME NEW m, NEW text, NEW n \in Nat, NEW a \in BOOLEAN, NEW b1 \in BOOLEAN, NEW u,
         NEW k, k # 0, NEW t, Cut(text, k, n) = t, NEW ph, Live(ph),
         m[n] = U!TakeChar(U!Run(u, k, ph), text, n),
         U!Step(ph, ":") = U!Do(ColonPh(b1, a), <<"host">>),
         \A c \in Ends : U!Step(ph, c) = U!EndAuthority(c, a, <<"host">>)
  PROVE  HostDone(m, text, n, a, u, Put(u, "host", t))
<1> PICK v : v = Put(u, "host", t)
  OBVIOUS
<1>4. Acts(u, k, <<"host">>, text, n, v)
  BY ActsHost
<1> DEFINE acts == <<"host">>
<1>5. acts \in Seq({"mark", "host"})
  OBVIOUS
<1>6. /\ U!Step(ph, ":") = U!Do(ColonPh(b1, a), acts) /\ b1 \in BOOLEAN
      /\ \A c \in Ends : U!Step(ph, c) = U!EndAuthority(c, a, acts)
      /\ Acts(u, k, acts, text, n, v)
  BY <1>4
<1> HIDE DEF acts
<1>7. HostBy(m, text, n, a, u, v, k, ph, b1, acts)
  BY <1>5, <1>6 DEF HostBy
<1> QED BY <1>7 DEF HostDone

-----------------------------------------------------------------------------
LEMMA NameStays ==
  ASSUME NEW t, Spelled(t, regchar), NEW a \in BOOLEAN, NEW b \in BOOLEAN
  PROVE  /\ t \in Seq(UrlChars) /\ Escaped(t) /\ Stays(HostPh(b, a), t, 1, Len(t))
         /\ t # <<>> => Marks(FirstPh(b, a), HostPh(b, a), t[1])
<1>1. regchar \in SUBSET UrlChars
  BY Disjoint DEF UrlChars
<1> HIDE DEF regchar, UrlChars
<1>2. t \in Seq(UrlChars) /\ Escaped(t) /\ \A i \in 1 .. Len(t) : t[i] \in regchar \cup {"%"}
  BY <1>1, SpelledIs
<1>3. "%" \notin regchar
  BY Disjoint DEF Delims
<1>4. Stays(HostPh(b, a), t, 1, Len(t))
  <2> SUFFICES ASSUME NEW x \in 1 + 1 .. Len(t)
               PROVE  U!Step(HostPh(b, a), t[x]) = IF t[x] = "%" THEN U!Pct(HostPh(b, a))
                                                   ELSE U!Goto(HostPh(b, a))
    BY DEF Stays
  <2>1. t[x] \in regchar \cup {"%"}
    BY <1>2
  <2> QED BY <1>3, <2>1, HostSteps
<1>5. ASSUME t # <<>> PROVE Marks(FirstPh(b, a), HostPh(b, a), t[1])
  <2>1. t[1] \in regchar \cup {"%"}
    BY <1>2, <1>5
  <2> QED BY <1>3, <2>1, HostSteps DEF Marks
<1> QED BY <1>2, <1>4, <1>5

LEMMA HostNamed ==
  ASSUME NEW m, NEW text, Scan(m, text), NEW t, Spelled(t, regchar), t # <<>>,
         NEW p \in Nat, Holds(text, p, t), NEW a \in BOOLEAN, NEW b \in BOOLEAN,
         NEW u, NEW j0, m[p] = U!Run(u, j0, FirstPh(b, a)), NEW n \in Nat, n = p + Len(t) + 1
  PROVE  HostDone(m, text, n, a, u, Put(u, "host", t))
<1> HIDE DEF regchar
<1> PICK k \in Nat : k = p + 1
  OBVIOUS
<1> PICK ph : ph = HostPh(b, a)
  OBVIOUS
<1> PICK first : first = FirstPh(b, a)
  OBVIOUS
<1>1. Live(ph) /\ Live(first)
  BY PhasesLive
<1>2. t \in Seq(UrlChars) /\ Escaped(t) /\ Stays(ph, t, 1, Len(t)) /\ Marks(first, ph, t[1])
  BY NameStays
<1>3. m[n] = U!TakeChar(U!Run(u, k, ph), text, n) /\ Cut(text, k, n) = t /\ k # 0
  BY <1>1, <1>2, PartRead
<1>4. U!Step(ph, ":") = U!Do(ColonPh(b, a), <<"host">>)
      /\ \A c \in Ends : U!Step(ph, c) = U!EndAuthority(c, a, <<"host">>)
  BY HostSteps
<1> QED BY <1>1, <1>3, <1>4, HostSaves

-----------------------------------------------------------------------------
\* The phases of the automaton for an address in brackets.
Phases(at, t, n) == at = [i \in 1 .. n |-> IF i = 1 THEN <<"literal">> ELSE U!Ip!Step(at[i - 1], t[i])]

LEMMA PhasesExist == ASSUME NEW t, NEW n \in Nat PROVE \E at : Phases(at, t, n)
<1> DEFINE Next1(k, x) == U!Ip!Step(x, t[k])
           Good(g, k) == g = [j \in 1 .. k |-> IF j = 1 THEN <<"literal">> ELSE Next1(j, g[j - 1])]
           Bad == {k \in Nat : ~ \E g : Good(g, k)}
<1>1. \A k : \A g : Good(g, k) <=> Phases(g, t, k)
  BY DEF Phases
<1> HIDE DEF Next1, Good
<1>2. SUFFICES ASSUME Bad # {} PROVE FALSE
  BY <1>1
<1>3. PICK x \in Bad : x \in Nat /\ \A k \in Bad : x <= k
  <2> HIDE DEF Bad
  <2>1. Bad \in SUBSET Nat
    BY DEF Bad
  <2> QED BY <1>2, <2>1, LeastExists
<1>4. CASE x = 0
  <2>1. Good([j \in 1 .. 0 |-> 0], 0)
    BY DEF Good
  <2> QED BY <1>3, <1>4, <2>1
<1>5. CASE x # 0
  <2>1. x - 1 \in Nat /\ x - 1 \notin Bad
    <3> HIDE DEF Bad
    <3> QED BY <1>3, <1>5
  <2>2. PICK g : Good(g, x - 1)
    BY <2>1
  <2> DEFINE h == [k \in 1 .. x |-> IF k = 1 THEN <<"literal">> ELSE IF k = x THEN Next1(x, g[x - 1])
                                    ELSE g[k]]
  <2>3. ASSUME NEW k \in 1 .. x
        PROVE  h[k] = IF k = 1 THEN <<"literal">> ELSE Next1(k, h[k - 1])
    <3>1. CASE k = 1
      BY <3>1
    <3>2. CASE k # 1
      <4>1. k - 1 \in 1 .. x - 1
        BY <3>2
      <4>2. h[k - 1] = g[k - 1]
        <5>1. CASE k - 1 = 1
          <6>1. h[k - 1] = <<"literal">>
            BY <4>1, <5>1
          <6> HIDE DEF h
          <6>2. g[k - 1] = <<"literal">>
            BY <2>2, <4>1, <5>1 DEF Good
          <6> QED BY <6>1, <6>2
        <5>2. CASE k - 1 # 1
          BY <4>1, <5>2
        <5> QED BY <5>1, <5>2
      <4>3. h[k] = IF k = x THEN Next1(x, g[x - 1]) ELSE g[k]
        BY <3>2
      <4> HIDE DEF h
      <4>4. CASE k = x
        BY <3>2, <4>2, <4>3, <4>4
      <4>5. CASE k # x
        <5>1. k \in 1 .. x - 1
          BY <4>1, <4>5
        <5>2. g[k] = Next1(k, g[k - 1])
          BY <2>2, <3>2, <5>1 DEF Good
        <5> QED BY <3>2, <4>2, <4>3, <4>5, <5>2
      <4> QED BY <4>4, <4>5
    <3> QED BY <3>1, <3>2
  <2>4. Good(h, x)
    <3>1. h = [k \in 1 .. x |-> h[k]]
      OBVIOUS
    <3> HIDE DEF h
    <3> QED BY <2>3, <3>1 DEF Good
  <2> QED BY <1>3, <2>4
<1> QED BY <1>4, <1>5

\* What an address in brackets is.
InBrackets(at, t) ==
  /\ t \in Seq(UrlChars) /\ Len(t) \in Nat /\ Len(t) > 1 /\ t[1] = "["
  /\ at[1] = <<"literal">>
  /\ \A i \in 1 .. Len(t) - 1 : /\ at[i] \notin {U!Ip!End, U!Ip!Bad}
                                /\ at[i + 1] = U!Ip!Step(at[i], t[i + 1])
  /\ at[Len(t)] = U!Ip!End

LEMMA BracketedIs ==
  ASSUME NEW t, Bracketed(t)
  PROVE  \E at : InBrackets(at, t)
<1>1. XDigit \cup regchar \cup {"[", "]", ":"} \subseteq UrlChars
  BY Disjoint DEF UrlChars
<1>2. /\ Len(t) > 1 /\ t \in Seq(XDigit \cup regchar \cup {"[", "]", ":"}) /\ t[1] = "["
      /\ LET at == CHOOSE at : Phases(at, t, Len(t))
         IN /\ \A i \in 1 .. Len(t) - 1 : at[i] \notin {U!Ip!End, U!Ip!Bad}
            /\ at[Len(t)] = U!Ip!End
  BY DEF Bracketed, Phases
<1> HIDE DEF XDigit, regchar, UrlChars
<1>3. t \in Seq(UrlChars) /\ Len(t) \in Nat
  BY <1>1, <1>2
<1>4. PICK at : /\ Phases(at, t, Len(t))
                /\ \A i \in 1 .. Len(t) - 1 : at[i] \notin {U!Ip!End, U!Ip!Bad}
                /\ at[Len(t)] = U!Ip!End
  BY <1>2, <1>3, PhasesExist
<1>5. at[1] = <<"literal">>
  <2>1. 1 \in 1 .. Len(t)
    BY <1>2, <1>3
  <2> QED BY <1>4, <2>1 DEF Phases
<1>6. ASSUME NEW i \in 1 .. Len(t) - 1 PROVE at[i + 1] = U!Ip!Step(at[i], t[i + 1])
  <2>1. i + 1 \in 1 .. Len(t) /\ i + 1 # 1 /\ (i + 1) - 1 = i
    BY <1>3
  <2>2. at[i + 1] = U!Ip!Step(at[(i + 1) - 1], t[i + 1])
    BY <1>4, <2>1 DEF Phases
  <2> QED BY <2>1, <2>2
<1> QED BY <1>2, <1>3, <1>4, <1>5, <1>6 DEF InBrackets

\* A step between the brackets.
LEMMA LiteralStep ==
  ASSUME NEW ph, NEW c, NEW a \in BOOLEAN, NEW to, to = U!Ip!Step(ph, c)
  PROVE  /\ to = U!Ip!End => U!Step(<<"literal", a, ph>>, c) = U!Goto(<<"literalEnd", a>>)
         /\ to \notin {U!Ip!End, U!Ip!Bad} => U!Step(<<"literal", a, ph>>, c) = U!Goto(<<"literal", a, to>>)
<1>1. U!Step(<<"literal", a, ph>>, c) = U!IpLiteral(ph, c, a)
  BY StepAuthority
<1>2. U!Ip!End # U!Ip!Bad
  BY DEF U!Ip!End, U!Ip!Bad
<1> QED BY <1>1, <1>2 DEF U!IpLiteral

LEMMA LiteralEndSteps ==
  ASSUME NEW a \in BOOLEAN
  PROVE  LET ph == <<"literalEnd", a>>
         IN /\ Live(ph) /\ U!Step(ph, ":") = U!Do(ColonPh(TRUE, a), <<"host">>)
            /\ \A c \in Ends : U!Step(ph, c) = U!EndAuthority(c, a, <<"host">>)
<1>1. \A c \in Ends : c # ":"
  BY EndsAre
<1>2. \A c : U!Step(<<"literalEnd", a>>, c) = U!LiteralEnd(c, a)
  BY StepAuthority
<1> QED BY <1>1, <1>2 DEF U!LiteralEnd, ColonPh, Live

LEMMA LiteralTaken ==
  ASSUME NEW m, NEW text, Scan(m, text), NEW t, NEW at, InBrackets(at, t),
         NEW p \in Nat, Holds(text, p, t), NEW a \in BOOLEAN, NEW b \in BOOLEAN,
         NEW u, NEW j0, m[p] = U!Run(u, j0, FirstPh(b, a)), NEW i \in 1 .. Len(t) - 1
  PROVE  m[p + i] = U!Run(u, p + 1, <<"literal", a, at[i]>>)
<1> DEFINE Bad == {x \in Nat : x \in 1 .. Len(t) - 1 /\ m[p + x] # U!Run(u, p + 1, <<"literal", a, at[x]>>)}
<1>1. SUFFICES ASSUME Bad # {} PROVE FALSE
  OBVIOUS
<1>2. PICK x \in Bad : x \in Nat /\ x \in 1 .. Len(t) - 1 /\ \A y \in Bad : x <= y
  <2> HIDE DEF Bad
  <2>1. Bad \in SUBSET Nat
    BY DEF Bad
  <2>2. PICK x \in Bad : \A y \in Bad : x <= y
    BY <1>1, <2>1, LeastExists
  <2>3. x \in Nat /\ x \in 1 .. Len(t) - 1
    BY <2>2 DEF Bad
  <2> QED BY <2>2, <2>3
<1>3. m[p + x] # U!Run(u, p + 1, <<"literal", a, at[x]>>)
  BY <1>2
<1>4. t \in Seq(UrlChars) /\ Len(t) \in Nat
  BY DEF InBrackets
<1>5. CASE x = 1
  <2>1. 0 \in 0 .. Len(t) - 1 /\ p + 0 = p
    BY <1>2, <1>4
  <2>2. m[p + (0 + 1)] = U!TakeChar(m[p + 0], text, p + (0 + 1)) /\ U!CharAt(text, p + (0 + 1)) = t[0 + 1]
    BY <1>4, <2>1, ScanIn, SMTT(40)
  <2>3. PICK k \in Nat : k = p + 1
    OBVIOUS
  <2>4. m[k] = U!TakeChar(U!Run(u, j0, FirstPh(b, a)), text, k) /\ U!CharAt(text, k) = "["
    BY <2>1, <2>2, <2>3 DEF InBrackets
  <2> DEFINE to == <<"literal", a, <<"literal">>>>
  <2>5. U!Step(FirstPh(b, a), U!CharAt(text, k)) = U!Do(to, <<"mark">>)
    BY <2>4, HostSteps
  <2>6. Live(to) /\ Live(FirstPh(b, a))
    BY PhasesLive DEF Live
  <2> HIDE DEF to
  <2>7. U!TakeChar(U!Run(u, j0, FirstPh(b, a)), text, k) = U!Run(u, k, to)
    BY <2>5, <2>6, TakenMark
  <2>8. to = <<"literal", a, at[x]>>
    BY <1>5 DEF to, InBrackets
  <2> QED BY <1>3, <1>5, <2>3, <2>4, <2>7, <2>8
<1>6. CASE x # 1
  <2>1. PICK y \in Nat : x = y + 1 /\ y \in 1 .. Len(t) - 1 /\ y \in 0 .. Len(t) - 1
    <3>1. x - 1 \in Nat /\ x = (x - 1) + 1 /\ x - 1 \in 1 .. Len(t) - 1 /\ x - 1 \in 0 .. Len(t) - 1
      BY <1>2, <1>4, <1>6
    <3> QED BY <3>1
  <2>2. y \notin Bad
    <3> HIDE DEF Bad
    <3> QED BY <1>2, <2>1
  <2> PICK k : k = p + 1
    OBVIOUS
  <2>3. m[p + y] = U!Run(u, k, <<"literal", a, at[y]>>)
    BY <2>1, <2>2
  <2>4. m[p + (y + 1)] = U!TakeChar(m[p + y], text, p + (y + 1)) /\ U!CharAt(text, p + (y + 1)) = t[y + 1]
    BY <1>4, <2>1, ScanIn
  <2>5. at[x] = U!Ip!Step(at[y], t[x]) /\ at[x] \notin {U!Ip!End, U!Ip!Bad}
    BY <1>2, <2>1 DEF InBrackets
  <2> DEFINE ph == <<"literal", a, at[y]>>
             to == <<"literal", a, at[x]>>
  <2>6. U!Step(ph, t[x]) = U!Goto(to)
    <3> PICK z : z = at[x]
      OBVIOUS
    <3> PICK w : w = at[y]
      OBVIOUS
    <3>1. z = U!Ip!Step(w, t[x]) /\ z \notin {U!Ip!End, U!Ip!Bad}
      BY <2>5
    <3>2. U!Step(<<"literal", a, w>>, t[x]) = U!Goto(<<"literal", a, z>>)
      BY <3>1, LiteralStep
    <3> QED BY <3>2
  <2>7. Live(ph)
    BY DEF Live
  <2> HIDE DEF ph, to
  <2> PICK n : n = p + x
    OBVIOUS
  <2>8. m[n] = U!TakeChar(U!Run(u, k, ph), text, n) /\ U!CharAt(text, n) = t[x]
    BY <2>1, <2>3, <2>4 DEF ph
  <2>9. m[n] = U!Run(u, k, to)
    BY <2>6, <2>7, <2>8, TakenGoto
  <2> QED BY <1>3, <2>9 DEF to
<1> QED BY <1>5, <1>6

LEMMA HostBracketed ==
  ASSUME NEW m, NEW text, Scan(m, text), NEW t, Bracketed(t),
         NEW p \in Nat, Holds(text, p, t), NEW a \in BOOLEAN, NEW b \in BOOLEAN,
         NEW u, NEW j0, m[p] = U!Run(u, j0, FirstPh(b, a)), NEW n \in Nat, n = p + Len(t) + 1
  PROVE  HostDone(m, text, n, a, u, Put(u, "host", t))
<1>1. PICK at : InBrackets(at, t)
  BY BracketedIs
<1>2. t \in Seq(UrlChars) /\ Len(t) \in Nat /\ Len(t) > 1 /\ text \in Seq(UrlChars)
  BY <1>1 DEF InBrackets, Scan
<1> PICK k \in Nat : k = p + 1
  OBVIOUS
<1> PICK q \in Nat : q = p + Len(t) /\ n = q + 1
  BY <1>2
<1>3. PICK y \in Nat : Len(t) = y + 1 /\ y \in 1 .. Len(t) - 1 /\ y \in 0 .. Len(t) - 1
  <2>1. Len(t) - 1 \in Nat /\ Len(t) = (Len(t) - 1) + 1
        /\ Len(t) - 1 \in 1 .. Len(t) - 1 /\ Len(t) - 1 \in 0 .. Len(t) - 1
    BY <1>2
  <2> QED BY <2>1
<1> DEFINE ph == <<"literal", a, at[y]>>
           end == <<"literalEnd", a>>
<1>4. m[p + y] = U!Run(u, k, ph)
  BY <1>1, <1>3, LiteralTaken
<1>5. m[p + (y + 1)] = U!TakeChar(m[p + y], text, p + (y + 1)) /\ U!CharAt(text, p + (y + 1)) = t[y + 1]
  BY <1>2, <1>3, ScanIn
<1>6. U!Step(ph, t[y + 1]) = U!Goto(end)
  <2>1. U!Ip!End = U!Ip!Step(at[y], t[y + 1])
    BY <1>1, <1>3 DEF InBrackets
  <2> QED BY <2>1, LiteralStep
<1>7. Live(ph)
  BY DEF Live
<1>8. /\ Live(end) /\ U!Step(end, ":") = U!Do(ColonPh(TRUE, a), <<"host">>)
      /\ \A c \in Ends : U!Step(end, c) = U!EndAuthority(c, a, <<"host">>)
  BY LiteralEndSteps
<1> HIDE DEF ph, end
<1>9. q = p + (y + 1)
  BY <1>3
<1>10. m[q] = U!TakeChar(U!Run(u, k, ph), text, q) /\ U!CharAt(text, q) = t[y + 1]
  BY <1>4, <1>5, <1>9
<1>11. m[q] = U!Run(u, k, end)
  BY <1>6, <1>7, <1>10, TakenGoto
<1>12. q \in 0 .. Len(text)
  BY <1>2 DEF Holds
<1>13. m[n] = U!TakeChar(U!Run(u, k, end), text, n)
  <2>1. m[q + 1] = U!TakeChar(m[q], text, q + 1)
    BY <1>12, ScanTo
  <2> QED BY <1>11, <2>1
<1>14. Cut(text, k, n) = t /\ k # 0
  BY <1>2, TextAt
<1> QED BY <1>8, <1>13, <1>14, HostSaves

-----------------------------------------------------------------------------
IsHost(t) == Spelled(t, regchar) \/ Bracketed(t)

LEMMA HostTaken ==
  ASSUME NEW m, NEW text, Scan(m, text), NEW t, IsHost(t),
         NEW p \in Nat, Holds(text, p, t), NEW a \in BOOLEAN, NEW b \in BOOLEAN,
         NEW u, NEW j0, m[p] = U!Run(u, j0, FirstPh(b, a)), NEW n \in Nat, n = p + Len(t) + 1
  PROVE  HostDone(m, text, n, a, u, Put(u, "host", t))
<1>1. CASE t = <<>>
  <2>1. Len(t) = 0
    BY <1>1
  <2>2. n = p + 1 /\ p <= Len(text)
    <3>1. Len(text) \in Nat
      BY DEF Scan
    <3> QED BY <2>1, <3>1 DEF Holds
  <2>3. HostDone(m, text, n, a, u, Put(u, "host", <<>>))
    BY <2>2, HostEmpty
  <2> QED BY <1>1, <2>3
<1>2. CASE t # <<>> /\ Spelled(t, regchar)
  <2> HIDE DEF regchar
  <2> QED BY <1>2, HostNamed
<1>3. CASE Bracketed(t)
  BY <1>3, HostBracketed
<1> QED BY <1>1, <1>2, <1>3 DEF IsHost

-----------------------------------------------------------------------------
\* User information.
IsUser(t) == Spelled(t, regchar \cup {":"})
FirstColon(t, f) == f \in 1 .. Len(t) /\ t[f] = ":" /\ \A i \in 1 .. f - 1 : t[i] # ":"

LEMMA FirstColonExists ==
  ASSUME NEW t \in Seq(UrlChars), NEW i \in 1 .. Len(t), t[i] = ":"
  PROVE  \E f : FirstColon(t, f)
<1> HIDE DEF UrlChars
<1> DEFINE S == {k \in Nat : k \in 1 .. Len(t) /\ t[k] = ":"}
<1>1. S # {} /\ S \in SUBSET Nat
  OBVIOUS
<1>2. PICK f \in S : \A k \in S : f <= k
  <2> HIDE DEF S
  <2> QED BY <1>1, LeastExists
<1>3. ASSUME NEW k \in 1 .. f - 1 PROVE t[k] # ":"
  <2>1. k \in Nat /\ k \in 1 .. Len(t) /\ k < f
    BY <1>2
  <2> QED BY <1>2, <2>1
<1> QED BY <1>2, <1>3 DEF FirstColon

LEMMA KeptIs ==
  ASSUME NEW t \in Seq(UrlChars)
  PROVE  /\ (\A i \in 1 .. Len(t) : t[i] # ":") => Kept(t) = t
         /\ \A f : FirstColon(t, f) =>
              Kept(t) = IF f < Len(t) /\ t[f + 1] \in Digit THEN SubSeq(t, f + 1, Len(t)) ELSE t
<1> HIDE DEF UrlChars, Digit
<1> DEFINE colons == {i \in 1 .. Len(t) : t[i] = ":"}
           first == CHOOSE i \in colons : \A k \in colons : i <= k
<1>1. Kept(t) = IF colons # {} /\ first < Len(t) /\ t[first + 1] \in Digit
                THEN SubSeq(t, first + 1, Len(t)) ELSE t
  BY DEF Kept
<1>2. ASSUME NEW f, FirstColon(t, f) PROVE colons # {} /\ first = f
  <2>1. f \in colons
    BY <1>2 DEF FirstColon
  <2>2. \A k \in colons : f <= k
    <3> TAKE k \in colons
    <3>1. k \in 1 .. Len(t) /\ t[k] = ":" /\ f \in 1 .. Len(t) /\ Len(t) \in Nat
      BY <2>1
    <3>2. k \notin 1 .. f - 1
      BY <1>2, <3>1 DEF FirstColon
    <3> QED BY <3>1, <3>2
  <2>3. \A i \in colons : (\A k \in colons : i <= k) => i = f
    <3> TAKE i \in colons
    <3> HAVE \A k \in colons : i <= k
    <3>1. i <= f /\ f <= i /\ i \in Nat /\ f \in Nat
      BY <2>1, <2>2
    <3> QED BY <3>1
  <2> HIDE DEF colons
  <2> QED BY <2>1, <2>2, <2>3
<1>3. ASSUME \A i \in 1 .. Len(t) : t[i] # ":" PROVE Kept(t) = t
  <2>1. colons = {}
    BY <1>3
  <2> QED BY <1>1, <2>1
<1>4. ASSUME NEW f, FirstColon(t, f)
      PROVE Kept(t) = IF f < Len(t) /\ t[f + 1] \in Digit THEN SubSeq(t, f + 1, Len(t)) ELSE t
  <2> HIDE DEF colons, first
  <2> QED BY <1>1, <1>2, <1>4
<1> QED BY <1>3, <1>4

-----------------------------------------------------------------------------
InfoPh(a) == <<"userinfo", a>>

LEMMA UserLive ==
  ASSUME NEW a
  PROVE  Live(InfoPh(a)) /\ Live(<<"colon", a>>) /\ Live(<<"digits", a>>) /\ Live(<<"name", a>>)
         /\ Live(<<"auth", a>>) /\ Live(<<"at", a>>)
BY DEF InfoPh, Live

LEMMA UserSteps ==
  ASSUME NEW c, NEW a \in BOOLEAN
  PROVE  /\ c \in Digit => /\ U!Step(<<"colon", a>>, c) = U!Do(<<"digits", a>>, <<"mark">>)
                           /\ U!Step(<<"digits", a>>, c) = U!Goto(<<"digits", a>>)
         /\ c \in (regchar \ Digit) \cup {":"} => /\ U!Step(<<"colon", a>>, c) = U!Goto(InfoPh(a))
                                                  /\ U!Step(<<"digits", a>>, c) = U!Goto(InfoPh(a))
         /\ c \in regchar \cup {":"} => U!Step(InfoPh(a), c) = U!Goto(InfoPh(a))
         /\ c = "%" => /\ U!Step(<<"colon", a>>, c) = U!Pct(InfoPh(a))
                       /\ U!Step(<<"digits", a>>, c) = U!Pct(InfoPh(a))
                       /\ U!Step(InfoPh(a), c) = U!Pct(InfoPh(a))
         /\ c = "@" => /\ U!Step(<<"name", a>>, c) = U!Do(<<"at", a>>, <<"user">>)
                       /\ U!Step(<<"colon", a>>, c) = U!Do(<<"at", a>>, <<"user">>)
                       /\ U!Step(<<"digits", a>>, c) = U!Do(<<"at", a>>, <<"user">>)
                       /\ U!Step(InfoPh(a), c) = U!Do(<<"at", a>>, <<"user">>)
<1>1. {"%", ":", "[", "@"} \cap regchar = {} /\ Digit \subseteq regchar
  BY Disjoint DEF Delims
<1>2. /\ U!Step(<<"name", a>>, c) = U!Name(c, a) /\ U!Step(<<"colon", a>>, c) = U!Colon(c, a)
      /\ U!Step(<<"digits", a>>, c) = U!Digits(c, a) /\ U!Step(<<"userinfo", a>>, c) = U!UserInfo(c, a)
  BY StepAuthority
<1> HIDE DEF regchar, Digit
<1>3. c \in Digit => /\ U!Colon(c, a) = U!Do(<<"digits", a>>, <<"mark">>)
                     /\ U!Digits(c, a) = U!Goto(<<"digits", a>>)
  BY <1>1, Classes DEF U!Colon, U!Digits
<1>4. c \in (regchar \ Digit) \cup {":"} => /\ U!Colon(c, a) = U!Goto(<<"userinfo", a>>)
                                            /\ U!Digits(c, a) = U!Goto(<<"userinfo", a>>)
  BY <1>1, Classes DEF U!Colon, U!Digits
<1>5. c \in regchar \cup {":"} => U!UserInfo(c, a) = U!Goto(<<"userinfo", a>>)
  BY <1>1, Classes DEF U!UserInfo
<1>6. c = "%" => /\ U!Colon(c, a) = U!Pct(<<"userinfo", a>>) /\ U!Digits(c, a) = U!Pct(<<"userinfo", a>>)
                 /\ U!UserInfo(c, a) = U!Pct(<<"userinfo", a>>)
  BY <1>1, Classes DEF U!Colon, U!Digits, U!UserInfo
<1>7. c = "@" => /\ U!Colon(c, a) = U!Do(<<"at", a>>, <<"user">>) /\ U!Digits(c, a) = U!Do(<<"at", a>>, <<"user">>)
                 /\ U!UserInfo(c, a) = U!Do(<<"at", a>>, <<"user">>) /\ U!Name(c, a) = U!Do(<<"at", a>>, <<"user">>)
  BY <1>1, Classes DEF U!Colon, U!Digits, U!UserInfo, U!Name
<1> QED BY <1>2, <1>3, <1>4, <1>5, <1>6, <1>7 DEF InfoPh

LEMMA UserChars ==
  ASSUME NEW t, IsUser(t)
  PROVE  t \in Seq(UrlChars) /\ Escaped(t) /\ \A i \in 1 .. Len(t) : t[i] \in regchar \cup {":", "%"}
<1>1. regchar \cup {":"} \in SUBSET UrlChars
  BY Disjoint DEF UrlChars
<1>2. regchar \cup {":"} \cup {"%"} = regchar \cup {":", "%"}
  OBVIOUS
<1> DEFINE S == regchar \cup {":"}
<1>3. Spelled(t, S)
  BY DEF IsUser
<1> HIDE DEF S, UrlChars
<1>4. t \in Seq(UrlChars) /\ Escaped(t) /\ \A i \in 1 .. Len(t) : t[i] \in S \cup {"%"}
  BY <1>1, <1>3, SpelledIs DEF S
<1> QED BY <1>2, <1>4 DEF S

\* In front of a ":" no escape is open.
LEMMA WithinColon ==
  ASSUME NEW t \in Seq(UrlChars), Escaped(t), NEW i \in 0 .. Len(t) - 1, t[i + 1] = ":", NEW ph
  PROVE  Within(t, i, ph) = ph
<1> HIDE DEF UrlChars
<1>1. ":" \notin XDigit
  BY Disjoint DEF Delims
<1>2. i >= 1 => t[i] # "%"
  <2> SUFFICES ASSUME i >= 1, t[i] = "%" PROVE FALSE
    OBVIOUS
  <2>1. t[i + 1] \in XDigit
    BY DEF Escaped
  <2> QED BY <1>1, <2>1
<1>3. i >= 2 => t[i - 1] # "%"
  <2> SUFFICES ASSUME i >= 2, t[i - 1] = "%" PROVE FALSE
    OBVIOUS
  <2>1. i - 1 \in 1 .. Len(t) /\ (i - 1) + 2 = i + 1
    OBVIOUS
  <2>2. t[(i - 1) + 2] \in XDigit
    BY <2>1 DEF Escaped
  <2> QED BY <1>1, <2>1, <2>2
<1> QED BY <1>2, <1>3 DEF Within

-----------------------------------------------------------------------------
\* Behind the first ":" of the user information, where a port might begin.
InUser(t, i, ph, a) == ph = Within(t, i, InfoPh(a)) \/ (ph = <<"digits", a>> /\ t[i] \in Digit)

LEMMA UserStep ==
  ASSUME NEW t, IsUser(t), NEW a \in BOOLEAN, NEW i \in 1 .. Len(t) - 1, NEW ph, InUser(t, i, ph, a)
  PROVE  Live(ph) /\ \E to : InUser(t, i + 1, to, a) /\ U!Step(ph, t[i + 1]) = U!Goto(to)
<1>0. t \in Seq(UrlChars) /\ Escaped(t) /\ \A k \in 1 .. Len(t) : t[k] \in regchar \cup {":", "%"}
  BY UserChars
<1>1. "%" \notin Digit /\ "%" \notin regchar
  BY Disjoint DEF Delims
<1> HIDE DEF UrlChars, regchar, Digit
<1>2. Len(t) \in Nat /\ i + 1 \in 1 .. Len(t) /\ i \in 0 .. Len(t) - 1
  BY <1>0
<1>3. t[i + 1] \in regchar \cup {":", "%"}
  BY <1>0, <1>2
<1>4. CASE ph = Within(t, i, InfoPh(a))
  <2>1. Stays(InfoPh(a), t, i, i + 1)
    <3> SUFFICES ASSUME NEW x \in i + 1 .. i + 1
                 PROVE  U!Step(InfoPh(a), t[x]) = IF t[x] = "%" THEN U!Pct(InfoPh(a)) ELSE U!Goto(InfoPh(a))
      BY DEF Stays
    <3>1. x = i + 1
      OBVIOUS
    <3> QED BY <1>1, <1>3, <3>1, UserSteps
  <2> PICK info : info = InfoPh(a)
    OBVIOUS
  <2>2. Live(info)
    BY UserLive
  <2>3. Live(Within(t, i, info)) /\ U!Step(Within(t, i, info), t[i + 1]) = U!Goto(Within(t, i + 1, info))
    BY <1>0, <1>2, <2>1, <2>2, EscapeStep
  <2> QED BY <1>4, <2>3 DEF InUser
<1>5. CASE ph = <<"digits", a>> /\ t[i] \in Digit
  <2>1. Live(ph)
    BY <1>5, UserLive
  <2>2. CASE t[i + 1] \in Digit
    <3>1. U!Step(ph, t[i + 1]) = U!Goto(<<"digits", a>>)
      BY <1>5, <2>2, UserSteps
    <3>2. InUser(t, i + 1, <<"digits", a>>, a)
      BY <2>2 DEF InUser
    <3> QED BY <2>1, <3>1, <3>2
  <2>3. CASE t[i + 1] = "%"
    <3> PICK to : to = <<"pct", 2, InfoPh(a)>>
      OBVIOUS
    <3>1. U!Step(ph, t[i + 1]) = U!Goto(to)
      BY <1>5, <2>3, UserSteps DEF U!Pct
    <3>2. InUser(t, i + 1, to, a)
      BY <1>2, <2>3 DEF InUser, Within
    <3> QED BY <2>1, <3>1, <3>2
  <2>4. CASE t[i + 1] \notin Digit /\ t[i + 1] # "%"
    <3> PICK to : to = InfoPh(a)
      OBVIOUS
    <3>1. U!Step(ph, t[i + 1]) = U!Goto(to)
      BY <1>3, <1>5, <2>4, UserSteps
    <3>2. Within(t, i + 1, to) = to
      BY <1>1, <1>2, <1>5, <2>4 DEF Within
    <3>3. InUser(t, i + 1, to, a)
      BY <3>2 DEF InUser
    <3> QED BY <2>1, <3>1, <3>3
  <2> QED BY <2>2, <2>3, <2>4
<1> QED BY <1>4, <1>5 DEF InUser

UserAt(m, p, t, i, w, k, a) == \E ph : m[p + i] = U!Run(w, k, ph) /\ InUser(t, i, ph, a)

LEMMA UserRest ==
  ASSUME NEW m, NEW text, Scan(m, text), NEW t, IsUser(t), NEW p \in Nat, Holds(text, p, t),
         NEW a \in BOOLEAN, NEW w, NEW k, NEW i \in 1 .. Len(t), UserAt(m, p, t, i, w, k, a)
  PROVE  UserAt(m, p, t, Len(t), w, k, a)
<1>0. t \in Seq(UrlChars)
  BY UserChars
<1> DEFINE Bad == {x \in Nat : x \in i .. Len(t) /\ ~UserAt(m, p, t, x, w, k, a)}
<1>1. Len(t) \in Nat /\ Len(t) \in i .. Len(t)
  BY <1>0
<1>2. SUFFICES ASSUME Bad # {} PROVE FALSE
  BY <1>1
<1>3. PICK x \in Bad : \A y \in Bad : x <= y
  <2> HIDE DEF Bad
  <2>1. Bad \in SUBSET Nat
    BY DEF Bad
  <2> QED BY <1>2, <2>1, LeastExists
<1>4. x \in Nat /\ x \in i .. Len(t) /\ ~UserAt(m, p, t, x, w, k, a) /\ x # i
  BY <1>3
<1>5. PICK y \in 1 .. Len(t) - 1 : x = y + 1 /\ y \in i .. Len(t) /\ y \in Nat /\ y \in 0 .. Len(t) - 1
  <2>1. x - 1 \in 1 .. Len(t) - 1 /\ x = (x - 1) + 1 /\ x - 1 \in i .. Len(t) /\ x - 1 \in Nat
        /\ x - 1 \in 0 .. Len(t) - 1
    BY <1>1, <1>4
  <2> QED BY <2>1
<1>6. UserAt(m, p, t, y, w, k, a)
  <2>1. y \notin Bad
    <3> HIDE DEF Bad
    <3> QED BY <1>3, <1>4, <1>5
  <2> QED BY <1>5, <2>1
<1> HIDE DEF Bad
<1>7. PICK ph : m[p + y] = U!Run(w, k, ph) /\ InUser(t, y, ph, a)
  BY <1>6 DEF UserAt
<1>8. PICK to : Live(ph) /\ InUser(t, y + 1, to, a) /\ U!Step(ph, t[y + 1]) = U!Goto(to)
  BY <1>7, UserStep
<1>9. m[p + (y + 1)] = U!TakeChar(m[p + y], text, p + (y + 1)) /\ U!CharAt(text, p + (y + 1)) = t[y + 1]
  BY <1>0, <1>5, ScanIn
<1> PICK n : n = p + (y + 1)
  OBVIOUS
<1>10. m[n] = U!TakeChar(U!Run(w, k, ph), text, n) /\ U!CharAt(text, n) = t[y + 1]
  BY <1>7, <1>9
<1>11. m[n] = U!Run(w, k, to)
  BY <1>8, <1>10, TakenGoto
<1>12. UserAt(m, p, t, y + 1, w, k, a)
  BY <1>8, <1>11 DEF UserAt
<1> QED BY <1>4, <1>5, <1>12

-----------------------------------------------------------------------------
\* Up to the first ":".
LEMMA ToColon ==
  ASSUME NEW m, NEW text, Scan(m, text), NEW t, IsUser(t), NEW p \in Nat, Holds(text, p, t),
         NEW a \in BOOLEAN, NEW v, NEW j, m[p] = U!Run(v, j, <<"auth", a>>), NEW f, FirstColon(t, f),
         NEW k \in Nat, k = p + 1
  PROVE  \E h : m[p + f] = U!Run(Put(v, "host", h), k, <<"colon", a>>)
<1>0. t \in Seq(UrlChars) /\ Escaped(t) /\ \A i \in 1 .. Len(t) : t[i] \in regchar \cup {":", "%"}
  BY UserChars
<1>1. "%" \notin regchar /\ ":" \notin regchar /\ text \in Seq(UrlChars)
  BY Disjoint DEF Delims, Scan
<1> HIDE DEF UrlChars, regchar
<1>2. f \in 1 .. Len(t) /\ t[f] = ":" /\ \A i \in 1 .. f - 1 : t[i] # ":"
  BY DEF FirstColon
<1>3. Len(t) \in Nat
  BY <1>0
<1> DEFINE auth == FirstPh(FALSE, a)
           name == HostPh(FALSE, a)
           colon == ColonPh(FALSE, a)
<1>4. auth = <<"auth", a>> /\ name = <<"name", a>> /\ colon = <<"colon", a>>
  BY DEF FirstPh, HostPh, ColonPh
<1>5. Live(auth) /\ Live(name) /\ Live(colon)
  BY PhasesLive
<1>6. U!Step(auth, ":") = U!Do(colon, <<"mark", "host">>) /\ U!Step(name, ":") = U!Do(colon, <<"host">>)
  BY HostSteps
<1>7. \A c \in regchar \cup {"%"} : Marks(auth, name, c)
  BY <1>1, HostSteps DEF Marks
<1>8. \A c \in regchar \cup {"%"} : U!Step(name, c) = IF c = "%" THEN U!Pct(name) ELSE U!Goto(name)
  BY <1>1, HostSteps
<1> HIDE DEF auth, name, colon
<1>9. m[p] = U!Run(v, j, auth)
  BY <1>4
<1>12. \A i \in 0 .. Len(t) - 1 : /\ m[p + (i + 1)] = U!TakeChar(m[p + i], text, p + (i + 1))
                                  /\ U!CharAt(text, p + (i + 1)) = t[i + 1]
  BY <1>0, ScanIn
<1>10. CASE f = 1
  <2>1. 0 \in 0 .. Len(t) - 1 /\ p + (0 + 1) = k /\ p + 0 = p /\ 0 + 1 = 1
    BY <1>2, <1>3
  <2>2. m[p + (0 + 1)] = U!TakeChar(m[p + 0], text, p + (0 + 1)) /\ U!CharAt(text, p + (0 + 1)) = t[0 + 1]
    BY <1>12, <2>1
  <2>3. m[k] = U!TakeChar(U!Run(v, j, auth), text, k) /\ U!CharAt(text, k) = ":"
    BY <1>2, <1>9, <1>10, <2>1, <2>2
  <2>4. m[k] = U!RunActs(U!Run(v, j, colon), <<"mark", "host">>, text, k)
    BY <1>5, <1>6, <2>3, Taken
  <2>5. U!Act(U!Run(v, j, colon), "mark", text, k) = U!Run(v, k, colon)
    BY ActMark
  <2>6. Live(U!Run(v, j, colon).at) /\ Live(U!Run(v, k, colon).at)
    BY <1>5, RunIs
  <2>7. m[k] = U!Act(U!Run(v, k, colon), "host", text, k)
    BY <2>4, <2>5, <2>6, ActsTwo
  <2>8. "host" \in TextParts /\ k # 0
    BY DEF TextParts
  <2> PICK h : h = Cut(text, k, k)
    OBVIOUS
  <2>9. U!Act(U!Run(v, k, colon), "host", text, k)
          = U!Run(Put(v, "host", h), IF "host" = "host" THEN k ELSE 0, colon)
    BY <2>8, ActSaves
  <2>10. m[k] = U!Run(Put(v, "host", h), k, colon)
    BY <2>7, <2>9
  <2>11. p + f = k
    BY <1>10
  <2> QED BY <1>4, <2>10, <2>11
<1>11. CASE f # 1
  <2>1. PICK i \in Nat : i + 1 = f /\ i \in 1 .. Len(t) /\ i \in 0 .. Len(t) - 1
    <3>1. f - 1 \in Nat /\ (f - 1) + 1 = f /\ f - 1 \in 1 .. Len(t) /\ f - 1 \in 0 .. Len(t) - 1
      BY <1>2, <1>3, <1>11
    <3> QED BY <3>1
  <2>2. \A x \in 1 .. i : t[x] \in regchar \cup {"%"}
    <3> TAKE x \in 1 .. i
    <3>1. x \in 1 .. Len(t) /\ x \in 1 .. f - 1
      BY <1>3, <2>1
    <3> QED BY <1>0, <1>2, <3>1
  <2>3. Stays(name, t, 1, i)
    <3> SUFFICES ASSUME NEW x \in 1 + 1 .. i
                 PROVE  U!Step(name, t[x]) = IF t[x] = "%" THEN U!Pct(name) ELSE U!Goto(name)
      BY DEF Stays
    <3>1. x \in 1 .. i
      BY <2>1
    <3> QED BY <1>8, <2>2, <3>1
  <2>4. Marks(auth, name, t[1]) /\ t # <<>>
    <3>1. 1 \in 1 .. i
      BY <2>1
    <3> QED BY <1>2, <1>3, <1>7, <2>2, <3>1
  <2>5. m[p + i] = U!Run(v, p + 1, Within(t, i, name))
    BY <1>0, <1>5, <1>9, <2>1, <2>3, <2>4, ScanMarked
  <2>6. Within(t, i, name) = name
    <3>1. t[i + 1] = ":"
      BY <1>2, <2>1
    <3> QED BY <1>0, <2>1, <3>1, WithinColon
  <2>7. m[p + (i + 1)] = U!TakeChar(m[p + i], text, p + (i + 1)) /\ U!CharAt(text, p + (i + 1)) = t[i + 1]
    BY <1>0, <2>1, ScanIn
  <2> PICK n : n = p + f
    OBVIOUS
  <2>8. m[n] = U!TakeChar(U!Run(v, k, name), text, n) /\ U!CharAt(text, n) = ":"
    BY <1>2, <2>1, <2>5, <2>6, <2>7
  <2>9. "host" \in TextParts /\ k # 0
    BY DEF TextParts
  <2> PICK h : h = Cut(text, k, n)
    OBVIOUS
  <2>10. U!TakeChar(U!Run(v, k, name), text, n)
           = U!Run(Put(v, "host", h), IF "host" = "host" THEN k ELSE 0, colon)
    BY <1>5, <1>6, <2>8, <2>9, TakenSave
  <2>11. m[n] = U!Run(Put(v, "host", h), k, colon)
    BY <2>8, <2>10
  <2> QED BY <1>4, <2>11
<1> QED BY <1>10, <1>11

-----------------------------------------------------------------------------
\* User information up to its "@".
LEMMA CutBehind ==
  ASSUME NEW text \in Seq(UrlChars), NEW t \in Seq(UrlChars), NEW p \in Nat, Holds(text, p, t),
         NEW f \in 1 .. Len(t), f < Len(t), NEW k \in Nat, k = p + (f + 1), NEW n \in Nat, n = p + Len(t) + 1
  PROVE  Cut(text, k, n) = SubSeq(t, f + 1, Len(t)) /\ k # 0
<1> DEFINE s == SubSeq(t, f + 1, Len(t))
<1> HIDE DEF UrlChars
<1>1. Len(t) \in Nat /\ Len(text) \in Nat
  OBVIOUS
<1>2. s \in Seq(UrlChars) /\ Len(s) = Len(t) - f /\ \A i \in 1 .. Len(t) - f : s[i] = t[f + i]
  BY <1>1
<1> HIDE DEF s
<1>3. f \in Nat /\ Len(s) \in Nat /\ Len(s) = Len(t) - f
  BY <1>1, <1>2
<1>4. PICK l \in Nat : l = p + f
  BY <1>3
<1>5. n = l + Len(s) + 1 /\ k = l + 1
  BY <1>1, <1>3, <1>4
<1>6. PICK q \in Nat : q = l + Len(s) /\ n = q + 1
  <2>1. l + Len(s) \in Nat /\ n = (l + Len(s)) + 1
    BY <1>3, <1>5
  <2> QED BY <2>1, Zenon
<1>7. Holds(text, l, s)
  <2>1. l + Len(s) <= Len(text)
    BY <1>1, <1>3, <1>4 DEF Holds
  <2>2. ASSUME NEW i \in 1 .. Len(s) PROVE text[l + i] = s[i]
    <3>1. i \in Nat /\ i \in 1 .. Len(t) - f
      BY <1>1, <1>3
    <3>2. f + i \in 1 .. Len(t) /\ l + i = p + (f + i)
      BY <1>1, <1>3, <1>4, <3>1
    <3>3. text[p + (f + i)] = t[f + i]
      BY <3>2 DEF Holds
    <3>4. s[i] = t[f + i]
      BY <1>2, <3>1
    <3> QED BY <3>2, <3>3, <3>4
  <2> QED BY <2>1, <2>2 DEF Holds
<1>8. Cut(text, k, n) = s /\ k # 0
  <2>1. s \in Seq(UrlChars)
    BY <1>2
  <2>2. SubSeq(text, l + 1, l + Len(s)) = s
    BY <1>7, <2>1, HoldsSub
  <2>3. n - 1 = l + Len(s) /\ k = l + 1 /\ k # 0
    BY <1>3, <1>4, <1>5
  <2>4. Cut(text, k, n) = SubSeq(text, k, n - 1)
    BY DEF Cut
  <2> QED BY <2>2, <2>3, <2>4, Zenon
<1> QED BY <1>8 DEF s

\* The user information up to the "@" behind it: what is saved begins at k.
UserRead(m, text, q, n, w, t, a) ==
  \E k, ph : /\ m[q] = U!Run(w, k, ph) /\ Live(ph) /\ k # 0 /\ Cut(text, k, n) = Kept(t)
             /\ U!Step(ph, "@") = U!Do(<<"at", a>>, <<"user">>)

LEMMA UserAtEnd ==
  ASSUME NEW m, NEW text, NEW t, IsUser(t), t # <<>>, NEW p \in Nat, NEW q \in Nat, q = p + Len(t), NEW n,
         NEW a \in BOOLEAN, NEW w, NEW k, k # 0, UserAt(m, p, t, Len(t), w, k, a), Cut(text, k, n) = Kept(t)
  PROVE  UserRead(m, text, q, n, w, t, a)
<1>1. PICK ph : m[q] = U!Run(w, k, ph) /\ InUser(t, Len(t), ph, a)
  BY DEF UserAt
<1>2. ph \in {InfoPh(a), <<"digits", a>>}
  <2>1. t \in Seq(UrlChars) /\ Escaped(t)
    BY UserChars
  <2>2. Within(t, Len(t), InfoPh(a)) = InfoPh(a)
    BY <2>1, WithinEnds
  <2> QED BY <1>1, <2>2 DEF InUser
<1>3. Live(ph) /\ U!Step(ph, "@") = U!Do(<<"at", a>>, <<"user">>)
  BY <1>2, UserLive, UserSteps
<1> QED BY <1>1, <1>3 DEF UserRead

LEMMA AfterColon ==
  ASSUME NEW m, NEW text, Scan(m, text), NEW t, IsUser(t), NEW p \in Nat, Holds(text, p, t),
         NEW a \in BOOLEAN, NEW w, NEW f, FirstColon(t, f), NEW k \in Nat, k = p + 1,
         m[p + f] = U!Run(w, k, <<"colon", a>>),
         NEW q \in Nat, q = p + Len(t), NEW n \in Nat, n = q + 1
  PROVE  UserRead(m, text, q, n, w, t, a)
<1>0. t \in Seq(UrlChars) /\ Escaped(t) /\ text \in Seq(UrlChars)
  BY UserChars DEF Scan
<1>1. \A i \in 1 .. Len(t) : t[i] \in regchar \cup {":", "%"}
  BY UserChars
<1> HIDE DEF UrlChars, regchar, Digit
<1>2. f \in 1 .. Len(t) /\ t[f] = ":" /\ Len(t) \in Nat /\ t # <<>>
  BY <1>0 DEF FirstColon
<1>3. Cut(text, k, n) = t /\ k # 0
  BY <1>0, TextAt
<1>4. Kept(t) = IF f < Len(t) /\ t[f + 1] \in Digit THEN SubSeq(t, f + 1, Len(t)) ELSE t
  BY <1>0, KeptIs
<1> DEFINE colon == <<"colon", a>>
<1>5. Live(colon)
  BY UserLive
<1>6. \A c : /\ c \in Digit => U!Step(colon, c) = U!Do(<<"digits", a>>, <<"mark">>)
             /\ c \in (regchar \ Digit) \cup {":"} => U!Step(colon, c) = U!Goto(InfoPh(a))
             /\ c = "%" => U!Step(colon, c) = U!Pct(InfoPh(a))
             /\ c = "@" => U!Step(colon, c) = U!Do(<<"at", a>>, <<"user">>)
  BY UserSteps
<1>7. m[p + f] = U!Run(w, k, colon)
  OBVIOUS
<1> HIDE DEF colon
<1>8. CASE f = Len(t)
  <2>1. Kept(t) = t
    BY <1>2, <1>4, <1>8
  <2>2. m[q] = U!Run(w, k, colon)
    BY <1>7, <1>8
  <2> QED BY <1>3, <1>5, <1>6, <2>1, <2>2 DEF UserRead
<1>9. CASE f < Len(t)
  <2>1. f \in 0 .. Len(t) - 1 /\ f + 1 \in 1 .. Len(t)
    BY <1>2, <1>9
  <2>2. m[p + (f + 1)] = U!TakeChar(m[p + f], text, p + (f + 1)) /\ U!CharAt(text, p + (f + 1)) = t[f + 1]
    BY <1>0, <2>1, ScanIn
  <2> PICK l \in Nat : l = p + (f + 1)
    BY <1>2
  <2>3. m[l] = U!TakeChar(U!Run(w, k, colon), text, l) /\ U!CharAt(text, l) = t[f + 1]
    BY <1>7, <2>2
  <2>4. t[f + 1] \in regchar \cup {":", "%"}
    BY <1>1, <2>1
  <2>5. CASE t[f + 1] \in Digit
    <3> DEFINE digits == <<"digits", a>>
    <3>1. Live(digits)
      BY UserLive
    <3>2. U!Step(colon, t[f + 1]) = U!Do(digits, <<"mark">>)
      BY <1>6, <2>5
    <3>3. InUser(t, f + 1, digits, a)
      BY <2>5 DEF InUser
    <3> HIDE DEF digits
    <3>4. m[l] = U!Run(w, l, digits)
      BY <1>5, <2>3, <3>1, <3>2, TakenMark
    <3>5. UserAt(m, p, t, f + 1, w, l, a)
      BY <3>3, <3>4 DEF UserAt
    <3>6. UserAt(m, p, t, Len(t), w, l, a)
      BY <2>1, <3>5, UserRest
    <3>7. Cut(text, l, n) = SubSeq(t, f + 1, Len(t)) /\ l # 0
      <4>1. n = p + Len(t) + 1
        OBVIOUS
      <4> QED BY <1>0, <1>2, <1>9, <4>1, CutBehind
    <3>8. Cut(text, l, n) = Kept(t)
      BY <1>4, <1>9, <2>5, <3>7
    <3> QED BY <1>2, <3>6, <3>7, <3>8, UserAtEnd
  <2>6. CASE t[f + 1] \notin Digit
    <3>1. Kept(t) = t
      BY <1>4, <2>6
    <3> PICK to : to = Within(t, f + 1, InfoPh(a))
      OBVIOUS
    <3>2. U!Step(colon, t[f + 1]) = U!Goto(to)
      <4>1. f + 1 >= 1 /\ (f + 1) - 1 = f /\ t[f] # "%"
        BY <1>2
      <4>2. to = IF t[f + 1] = "%" THEN <<"pct", 2, InfoPh(a)>> ELSE InfoPh(a)
        BY <4>1 DEF Within
      <4> QED BY <1>6, <2>4, <2>6, <4>2 DEF U!Pct
    <3>3. m[l] = U!Run(w, k, to)
      BY <1>5, <2>3, <3>2, TakenGoto
    <3>4. UserAt(m, p, t, f + 1, w, k, a)
      BY <3>3 DEF UserAt, InUser
    <3>5. UserAt(m, p, t, Len(t), w, k, a)
      BY <2>1, <3>4, UserRest
    <3>6. Cut(text, k, n) = Kept(t)
      BY <1>3, <3>1
    <3> QED BY <1>2, <1>3, <3>5, <3>6, UserAtEnd
  <2> QED BY <2>5, <2>6
<1> QED BY <1>2, <1>8, <1>9

LEMMA UserTaken ==
  ASSUME NEW m, NEW text, Scan(m, text), NEW t, IsUser(t), t # <<>>, NEW p \in Nat, Holds(text, p, t),
         NEW a \in BOOLEAN, NEW v, NEW j, m[p] = U!Run(v, j, <<"auth", a>>), Put(v, "host", <<>>) = v,
         NEW q \in Nat, q = p + Len(t), NEW n \in Nat, n = q + 1, U!CharAt(text, n) = "@"
  PROVE  \E h : m[n] = U!Run(Put(Put(v, "host", h), "user", Kept(t)), 0, <<"at", a>>)
<1>0. t \in Seq(UrlChars) /\ Escaped(t) /\ text \in Seq(UrlChars) /\ Len(t) \in Nat
  BY UserChars DEF Scan
<1> HIDE DEF UrlChars, regchar, Digit
<1> PICK k \in Nat : k = p + 1
  OBVIOUS
<1>1. \E h : UserRead(m, text, q, n, Put(v, "host", h), t, a)
  <2>1. CASE \E f : FirstColon(t, f)
    <3> PICK f : FirstColon(t, f)
      BY <2>1
    <3> PICK h : m[p + f] = U!Run(Put(v, "host", h), k, <<"colon", a>>)
      BY ToColon
    <3> PICK w : w = Put(v, "host", h)
      OBVIOUS
    <3>1. UserRead(m, text, q, n, w, t, a)
      BY AfterColon
    <3> QED BY <3>1
  <2>2. CASE ~\E f : FirstColon(t, f)
    <3>1. \A i \in 1 .. Len(t) : t[i] # ":"
      BY <1>0, <2>2, FirstColonExists
    <3>2. Kept(t) = t
      BY <1>0, <3>1, KeptIs
    <3>3. Spelled(t, regchar)
      <4>1. \A i \in 1 .. Len(t) : t[i] \in regchar \cup {"%"}
        BY <3>1, UserChars
      <4>2. t \in Seq(regchar \cup {"%"})
        BY <1>0, <4>1
      <4> QED BY <4>2 DEF IsUser, Spelled
    <3> DEFINE auth == FirstPh(FALSE, a)
               name == HostPh(FALSE, a)
    <3>4. auth = <<"auth", a>> /\ name = <<"name", a>> /\ Live(auth) /\ Live(name)
      BY PhasesLive DEF FirstPh, HostPh
    <3>5. Stays(name, t, 1, Len(t)) /\ Marks(auth, name, t[1])
      BY <3>3, NameStays
    <3>6. U!Step(name, "@") = U!Do(<<"at", a>>, <<"user">>)
      BY <3>4, UserSteps
    <3> HIDE DEF auth, name
    <3>7. m[p] = U!Run(v, j, auth)
      BY <3>4
    <3>8. m[q] = U!Run(v, k, name)
      BY <1>0, <3>4, <3>5, <3>7, ScanPart
    <3>9. Cut(text, k, n) = t /\ k # 0
      BY <1>0, TextAt
    <3>10. UserRead(m, text, q, n, v, t, a)
      BY <3>2, <3>4, <3>6, <3>8, <3>9 DEF UserRead
    <3> QED BY <3>10
  <2> QED BY <2>1, <2>2
<1>2. PICK h : UserRead(m, text, q, n, Put(v, "host", h), t, a)
  BY <1>1
<1> PICK w : w = Put(v, "host", h)
  OBVIOUS
<1>3. PICK l, ph : /\ m[q] = U!Run(w, l, ph) /\ Live(ph) /\ l # 0 /\ Cut(text, l, n) = Kept(t)
                   /\ U!Step(ph, "@") = U!Do(<<"at", a>>, <<"user">>)
  BY <1>2 DEF UserRead
<1>4. m[n] = U!TakeChar(U!Run(w, l, ph), text, n)
  <2>1. q \in 0 .. Len(text)
    BY <1>0 DEF Holds
  <2>2. m[q + 1] = U!TakeChar(m[q], text, q + 1)
    BY <2>1, ScanTo
  <2> QED BY <1>3, <2>2
<1>5. "user" \in TextParts
  BY DEF TextParts
<1> DEFINE to == <<"at", a>>
<1>6. Live(to) /\ U!Step(ph, U!CharAt(text, n)) = U!Do(to, <<"user">>)
  BY <1>3, UserLive
<1> HIDE DEF to
<1> PICK it : it = Kept(t)
  OBVIOUS
<1>7. U!TakeChar(U!Run(w, l, ph), text, n) = U!Run(Put(w, "user", it), IF "user" = "host" THEN l ELSE 0, to)
  BY <1>3, <1>5, <1>6, TakenSave
<1>8. m[n] = U!Run(Put(w, "user", it), 0, to)
  BY <1>4, <1>7
<1> QED BY <1>8 DEF to

-----------------------------------------------------------------------------
\* The beginning: a scheme, or the two slashes of a reference without one.
LEMMA HoldsOne ==
  ASSUME NEW text, NEW r \in Nat, NEW c, Holds(text, r, <<c>>)
  PROVE  r + 1 <= Len(text) /\ U!CharAt(text, r + 1) = c
<1>1. Len(<<c>>) = 1 /\ 1 \in 1 .. Len(<<c>>) /\ <<c>>[1] = c
  OBVIOUS
<1> QED BY <1>1 DEF Holds, U!CharAt

Slashes == <<"/", "/">>

LEMMA SlashesTaken ==
  ASSUME NEW m, NEW text, Scan(m, text), NEW r \in Nat, Holds(text, r, Slashes), NEW v, NEW k,
         NEW ph, Live(ph), m[r] = U!Run(v, k, ph), NEW p1, Live(p1), U!Step(ph, "/") = U!Goto(p1),
         NEW p2, U!Step(p1, "/") = U!Goto(p2), NEW n \in Nat, n = r + 2
  PROVE  m[n] = U!Run(v, k, p2)
<1>1. Slashes \in Seq(UrlChars) /\ Len(Slashes) = 2 /\ Slashes[1] = "/" /\ Slashes[2] = "/"
  <2>1. "/" \in UrlChars
    BY DEF UrlChars
  <2> HIDE DEF UrlChars
  <2> QED BY <2>1 DEF Slashes
<1> HIDE DEF UrlChars
<1>2. \A i \in 0 .. Len(Slashes) - 1 : /\ m[r + (i + 1)] = U!TakeChar(m[r + i], text, r + (i + 1))
                                       /\ U!CharAt(text, r + (i + 1)) = Slashes[i + 1]
  <2> PICK t \in Seq(UrlChars) : t = Slashes
    BY <1>1
  <2>1. Holds(text, r, t)
    OBVIOUS
  <2>2. \A i \in 0 .. Len(t) - 1 : /\ m[r + (i + 1)] = U!TakeChar(m[r + i], text, r + (i + 1))
                                   /\ U!CharAt(text, r + (i + 1)) = t[i + 1]
    BY <2>1, ScanIn
  <2> QED BY <2>2
<1>3. m[r + (0 + 1)] = U!TakeChar(m[r + 0], text, r + (0 + 1)) /\ U!CharAt(text, r + (0 + 1)) = Slashes[0 + 1]
  BY <1>1, <1>2
<1>4. m[r + (1 + 1)] = U!TakeChar(m[r + 1], text, r + (1 + 1)) /\ U!CharAt(text, r + (1 + 1)) = Slashes[1 + 1]
  BY <1>1, <1>2
<1> PICK q \in Nat : q = r + 1
  OBVIOUS
<1>5. m[q] = U!TakeChar(U!Run(v, k, ph), text, q) /\ U!CharAt(text, q) = "/"
  BY <1>1, <1>3
<1>6. m[q] = U!Run(v, k, p1)
  BY <1>5, TakenGoto
<1>7. m[n] = U!TakeChar(U!Run(v, k, p1), text, n) /\ U!CharAt(text, n) = "/"
  BY <1>1, <1>4, <1>6
<1> QED BY <1>7, TakenGoto

-----------------------------------------------------------------------------
SchemeChars == Alpha \cup Digit \cup {"+", "-", "."}
IsScheme(t) == t \in Seq(SchemeChars) /\ (t = <<>> \/ t[1] \in Alpha)
NoParts(s) == Parts(s, <<>>, <<>>, 0, <<>>, <<>>, <<>>)

LEMMA SchemeSteps ==
  ASSUME NEW c
  PROVE  /\ c \in Alpha => U!Step(<<"start">>, c) = U!Do(<<"scheme">>, <<"mark">>)
         /\ c \in SchemeChars => U!Step(<<"scheme">>, c) = U!Goto(<<"scheme">>)
         /\ c = ":" => U!Step(<<"scheme">>, c) = U!Do(<<"hier">>, <<"scheme">>)
         /\ c = "/" => /\ U!Step(<<"start">>, c) = U!Goto(<<"slash">>)
                       /\ U!Step(<<"slash">>, c) = U!Goto(<<"auth", FALSE>>)
                       /\ U!Step(<<"hier">>, c) = U!Goto(<<"hier/">>)
                       /\ U!Step(<<"hier/">>, c) = U!Goto(<<"auth", TRUE>>)
<1>1. /\ U!Step(<<"start">>, c) = U!Start(c) /\ U!Step(<<"scheme">>, c) = U!Scheme(c)
      /\ U!Step(<<"hier">>, c) = U!HierPart(c) /\ U!Step(<<"hier/">>, c) = U!Slash(c, TRUE)
      /\ U!Step(<<"slash">>, c) = U!Slash(c, FALSE)
  BY StepIs
<1>2. regchar \cap Delims = {} /\ pchar \cap Delims = {":", "@"} /\ Alpha \subseteq regchar
      /\ SchemeChars \subseteq regchar
  BY Disjoint DEF SchemeChars
<1>3. "/" \notin pchar /\ "/" \notin Alpha /\ ":" \notin SchemeChars /\ "%" \notin Alpha
  BY <1>2 DEF Delims
<1> HIDE DEF Alpha, Digit, pchar, regchar
<1>4. c \in Alpha => U!Start(c) = U!Do(<<"scheme">>, <<"mark">>)
  <2>1. c \in Alpha => c # "/" /\ c # "%"
    BY <1>3
  <2> QED BY <2>1, Classes DEF U!Start
<1>5. c \in SchemeChars => U!Scheme(c) = U!Goto(<<"scheme">>)
  BY Classes DEF U!Scheme, SchemeChars
<1>6. c = ":" => U!Scheme(c) = U!Do(<<"hier">>, <<"scheme">>)
  BY <1>3, Classes DEF U!Scheme, SchemeChars
<1>7. c = "/" => /\ U!HierPart(c) = U!Goto(<<"hier/">>) /\ U!Slash(c, TRUE) = U!Goto(<<"auth", TRUE>>)
                 /\ U!Slash(c, FALSE) = U!Goto(<<"auth", FALSE>>)
  BY <1>3, Classes DEF U!HierPart, U!Slash
<1>8. c = "/" => U!Start(c) = U!Goto(<<"slash">>)
  <2>1. U!Seg \subseteq pchar
    BY Classes DEF U!Seg
  <2> QED BY <1>3, <2>1, Classes DEF U!Start
<1> QED BY <1>1, <1>4, <1>5, <1>6, <1>7, <1>8

LEMMA SchemeLive ==
  /\ Live(<<"start">>) /\ Live(<<"scheme">>) /\ Live(<<"hier">>) /\ Live(<<"hier/">>)
  /\ Live(<<"slash">>)
BY DEF Live

LEMMA NewParts == U!NewUri = NoParts(<<>>)
BY DEF U!NewUri, NoParts, Parts

\* A reference without a scheme.
LEMMA StartTaken ==
  ASSUME NEW m, NEW text, Scan(m, text), m[0] = U!Run(U!NewUri, U!Null, <<"start">>), Holds(text, 0, Slashes)
  PROVE  \E j : m[2] = U!Run(NoParts(<<>>), j, <<"auth", FALSE>>)
<1> DEFINE start == <<"start">>
           slash == <<"slash">>
           auth == <<"auth", FALSE>>
<1>1. Live(start) /\ Live(slash) /\ U!Step(start, "/") = U!Goto(slash) /\ U!Step(slash, "/") = U!Goto(auth)
  BY SchemeLive, SchemeSteps
<1>2. m[0] = U!Run(NoParts(<<>>), U!Null, start)
  BY NewParts
<1> HIDE DEF start, slash, auth
<1>3. 0 \in Nat /\ 2 \in Nat /\ 2 = 0 + 2
  OBVIOUS
<1>4. m[2] = U!Run(NoParts(<<>>), U!Null, auth)
  BY <1>1, <1>2, <1>3, SlashesTaken
<1> QED BY <1>4 DEF auth

LEMMA SchemeTaken ==
  ASSUME NEW m, NEW text, Scan(m, text), m[0] = U!Run(U!NewUri, U!Null, <<"start">>),
         NEW s, IsScheme(s), s # <<>>, Holds(text, 0, s), NEW q \in Nat, q = Len(s), Holds(text, q, <<":">>),
         NEW r \in Nat, r = q + 1, Holds(text, r, Slashes), NEW n \in Nat, n = r + 2
  PROVE  \E j : m[n] = U!Run(NoParts(s), j, <<"auth", TRUE>>)
<1> DEFINE start == <<"start">>
           scheme == <<"scheme">>
           hier == <<"hier">>
           hier1 == <<"hier/">>
           auth == <<"auth", TRUE>>
<1>1. /\ Live(start) /\ Live(scheme) /\ Live(hier) /\ Live(hier1)
      /\ \A c \in Alpha : U!Step(start, c) = U!Do(scheme, <<"mark">>)
      /\ \A c \in SchemeChars : U!Step(scheme, c) = U!Goto(scheme)
      /\ U!Step(scheme, ":") = U!Do(hier, <<"scheme">>)
      /\ U!Step(hier, "/") = U!Goto(hier1) /\ U!Step(hier1, "/") = U!Goto(auth)
  BY SchemeLive, SchemeSteps
<1>2. m[0] = U!Run(NoParts(<<>>), U!Null, start)
  BY NewParts
<1> HIDE DEF start, scheme, hier, hier1, auth
<1>3. SchemeChars \subseteq UrlChars /\ "%" \notin SchemeChars /\ Alpha \subseteq SchemeChars
  BY Disjoint DEF SchemeChars, UrlChars, Delims
<1> HIDE DEF SchemeChars, UrlChars, Alpha
<1>4. s \in Seq(UrlChars) /\ Len(s) \in Nat /\ \A i \in 1 .. Len(s) : s[i] \in SchemeChars /\ s[i] # "%"
  BY <1>3 DEF IsScheme
<1>5. s[1] \in Alpha /\ s[1] # "%"
  BY <1>3 DEF IsScheme
<1>6. Escaped(s)
  BY <1>4 DEF Escaped
<1>7. Marks(start, scheme, s[1])
  BY <1>1, <1>5 DEF Marks
<1>8. Stays(scheme, s, 1, Len(s))
  <2> SUFFICES ASSUME NEW x \in 1 + 1 .. Len(s)
               PROVE  U!Step(scheme, s[x]) = IF s[x] = "%" THEN U!Pct(scheme) ELSE U!Goto(scheme)
    BY DEF Stays
  <2> QED BY <1>1, <1>4
<1>9. text \in Seq(UrlChars)
  BY DEF Scan
<1>10. 0 \in Nat /\ r = 0 + Len(s) + 1 /\ 1 \in Nat /\ 1 = 0 + 1
  BY <1>4
<1> PICK k \in Nat, z \in Nat : k = 1 /\ z = 0 /\ k = z + 1 /\ r = z + Len(s) + 1
  BY <1>4
<1>11. m[r] = U!TakeChar(U!Run(NoParts(<<>>), k, scheme), text, r) /\ Cut(text, k, r) = s /\ k # 0
  <2>1. m[z] = U!Run(NoParts(<<>>), U!Null, start) /\ Holds(text, z, s)
    BY <1>2
  <2> PICK v : v = NoParts(<<>>)
    OBVIOUS
  <2>2. m[r] = U!TakeChar(U!Run(v, k, scheme), text, r) /\ Cut(text, k, r) = s /\ k # 0
    BY <1>1, <1>4, <1>6, <1>7, <1>8, <2>1, PartRead
  <2> QED BY <2>2
<1>12. U!CharAt(text, r) = ":"
  BY HoldsOne
<1>13. "scheme" \in TextParts
  BY DEF TextParts
<1> PICK v : v = NoParts(<<>>)
  OBVIOUS
<1>14. U!TakeChar(U!Run(v, k, scheme), text, r)
         = U!Run(Put(v, "scheme", s), IF "scheme" = "host" THEN k ELSE 0, hier)
  BY <1>1, <1>11, <1>12, <1>13, TakenSave
<1>15. Put(v, "scheme", s) = NoParts(s)
  BY PartsPut DEF NoParts
<1>16. m[r] = U!Run(NoParts(s), 0, hier)
  BY <1>11, <1>14, <1>15
<1>17. m[n] = U!Run(NoParts(s), 0, auth)
  BY <1>1, <1>16, SlashesTaken
<1> QED BY <1>17 DEF auth

-----------------------------------------------------------------------------
\* The authority as a whole.
IsPort(t) == t \in Seq(Digit)
UserPart(t) == IF t = <<>> THEN <<>> ELSE t \o <<"@">>

\* Behind the host: the port, if there is one.
LEMMA AfterHost ==
  ASSUME NEW m, NEW text, Scan(m, text), NEW a \in BOOLEAN, NEW s, NEW ui, NEW g, NEW h, NEW t, IsPort(t),
         NEW p \in Nat, NEW n \in Nat, n = p + 1,
         NEW v0, v0 = Parts(s, ui, g, 0, <<>>, <<>>, <<>>),
         HostDone(m, text, n, a, v0, Put(v0, "host", h)),
         NEW r \in Nat, Part(text, p, ":", t, r), NEW l \in Nat, l = r + 1, U!CharAt(text, l) \in Ends
  PROVE  AuthorityDone(m, text, l, a, Parts(s, ui, h, Number(t), <<>>, <<>>, <<>>))
<1> DEFINE v == Parts(s, ui, h, 0, <<>>, <<>>, <<>>)
           w == Parts(s, ui, h, Number(t), <<>>, <<>>, <<>>)
<1>1. Put(v0, "host", h) = v /\ Put(v, "path", <<>>) = v /\ Put(v, "port", Number(t)) = w
      /\ Put(w, "path", <<>>) = w
  BY PartsPut
<1>2. Number(<<>>) = 0
  BY NumberNone
<1>3. t = <<>> => w = v
  BY <1>2
<1>8. (t = <<>> => w = v) /\ w = Parts(s, ui, h, Number(t), <<>>, <<>>, <<>>)
  BY <1>3
<1> HIDE DEF v, w
<1>5. HostDone(m, text, n, a, v0, v)
  BY <1>1
<1>6. CASE t = <<>>
  <2>1. r = p
    BY <1>6, PartEmpty
  <2>2. l = n /\ n # 0
    BY <2>1
  <2>3. U!CharAt(text, n) \in Ends
    BY <2>2
  <2>4. AuthorityDone(m, text, n, a, v)
    <3>1. n # 0 /\ Put(v, "path", <<>>) = v
      BY <1>1, <2>2
    <3> QED BY <1>5, <2>3, <3>1, HostEnds
  <2>5. AuthorityDone(m, text, l, a, w)
    BY <1>6, <1>8, <2>2, <2>4
  <2> QED BY <1>8, <2>5
<1>7. CASE t # <<>>
  <2>0. t \in Seq(Digit) /\ t \in Seq(UrlChars) /\ text \in Seq(UrlChars) /\ ":" \in UrlChars
    <3>1. t \in Seq(UrlChars)
      BY DigitsAre DEF IsPort
    <3> QED BY <3>1 DEF IsPort, Scan, UrlChars
  <2> HIDE DEF UrlChars, Digit
  <2>1. U!CharAt(text, p + 1) = ":" /\ Holds(text, p + 1, t) /\ r = (p + 1) + Len(t)
    BY <1>7, <2>0, PartIs
  <2>2. U!CharAt(text, n) = ":" /\ Holds(text, n, t) /\ l = n + Len(t) + 1
    BY <2>1
  <2>3. AtColon(m, n, a, v)
    <3>1. U!CharAt(text, n) = ":"
      BY <2>2
    <3> QED BY <1>5, <3>1, HostColon
  <2>4. w = Put(v, "port", Number(t)) /\ Put(w, "path", <<>>) = w
    BY <1>1
  <2>5. ASSUME NEW b \in BOOLEAN, NEW j0, m[n] = U!Run(v, j0, ColonPh(b, a))
        PROVE  AuthorityDone(m, text, l, a, w)
    BY <1>7, <2>0, <2>2, <2>4, <2>5, PortTaken
  <2>6. AuthorityDone(m, text, l, a, w)
    <3>1. ASSUME NEW j0, m[n] = U!Run(v, j0, ColonPh(TRUE, a)) PROVE AuthorityDone(m, text, l, a, w)
      BY <2>5, <3>1
    <3>2. ASSUME NEW j0, m[n] = U!Run(v, j0, ColonPh(FALSE, a)) PROVE AuthorityDone(m, text, l, a, w)
      BY <2>5, <3>2
    <3> QED BY <2>3, <3>1, <3>2 DEF AtColon
  <2> QED BY <1>8, <2>6
<1> QED BY <1>6, <1>7

\* The authority: from behind "//" to the character that ends it.
LEMMA AuthorityTaken ==
  ASSUME NEW m, NEW text, Scan(m, text), NEW a \in BOOLEAN, NEW s, NEW ui, IsUser(ui), NEW h, IsHost(h),
         NEW t, IsPort(t),
         NEW p0 \in Nat, NEW j0, m[p0] = U!Run(NoParts(s), j0, <<"auth", a>>),
         Holds(text, p0, UserPart(ui)), NEW p1 \in Nat, p1 = p0 + Len(UserPart(ui)),
         Holds(text, p1, h), NEW p2 \in Nat, p2 = p1 + Len(h),
         NEW r \in Nat, Part(text, p2, ":", t, r), NEW l \in Nat, l = r + 1, U!CharAt(text, l) \in Ends
  PROVE  AuthorityDone(m, text, l, a, Parts(s, Kept(ui), h, Number(t), <<>>, <<>>, <<>>))
<1> DEFINE At(b) == \E g, j : m[p1] = U!Run(Parts(s, Kept(ui), g, 0, <<>>, <<>>, <<>>), j, FirstPh(b, a))
<1>1. At(TRUE) \/ At(FALSE)
  <2>1. CASE ui = <<>>
    <3>1. Kept(ui) = <<>>
      <4>1. <<>> \in Seq(UrlChars) /\ Len(<<>>) = 0
        OBVIOUS
      <4>2. \A i \in 1 .. Len(<<>>) : <<>>[i] # ":"
        BY <4>1
      <4>3. Kept(<<>>) = <<>>
        BY <4>1, <4>2, KeptIs
      <4> QED BY <2>1, <4>3
    <3>2. p1 = p0
      BY <2>1 DEF UserPart
    <3>3. NoParts(s) = Parts(s, Kept(ui), <<>>, 0, <<>>, <<>>, <<>>)
      BY <3>1 DEF NoParts
    <3>4. FirstPh(FALSE, a) = <<"auth", a>>
      BY DEF FirstPh
    <3>5. m[p1] = U!Run(Parts(s, Kept(ui), <<>>, 0, <<>>, <<>>, <<>>), j0, FirstPh(FALSE, a))
      BY <3>2, <3>3, <3>4
    <3> QED BY <3>5
  <2>2. CASE ui # <<>>
    <3>0. ui \in Seq(UrlChars) /\ Len(ui) \in Nat /\ text \in Seq(UrlChars)
      BY UserChars DEF Scan
    <3>1. UserPart(ui) = ui \o <<"@">>
      BY <2>2 DEF UserPart
    <3> DEFINE w == ui \o <<"@">>
    <3> HIDE DEF UrlChars
    <3>2. Len(w) = Len(ui) + 1 /\ w[Len(ui) + 1] = "@" /\ \A i \in 1 .. Len(ui) : w[i] = ui[i]
      BY <3>0
    <3>3. Holds(text, p0, w) /\ p1 = p0 + Len(w)
      BY <3>1
    <3> HIDE DEF w
    <3>4. PICK q \in Nat : q = p0 + Len(ui) /\ p1 = q + 1
      BY <3>0, <3>2, <3>3
    <3>5. Len(text) \in Nat /\ p0 + Len(w) <= Len(text) /\ \A i \in 1 .. Len(w) : text[p0 + i] = w[i]
      BY <3>0, <3>3 DEF Holds
    <3>6. Holds(text, p0, ui)
      <4>1. \A i \in 1 .. Len(ui) : i \in 1 .. Len(w)
        BY <3>0, <3>2
      <4>2. \A i \in 1 .. Len(ui) : text[p0 + i] = ui[i]
        BY <3>2, <3>5, <4>1
      <4>3. p0 + Len(ui) <= Len(text)
        BY <3>0, <3>2, <3>5
      <4> QED BY <4>2, <4>3 DEF Holds
    <3>7. U!CharAt(text, p1) = "@"
      <4>1. Len(ui) + 1 \in 1 .. Len(w)
        BY <3>0, <3>2
      <4>2. text[p0 + (Len(ui) + 1)] = "@"
        BY <3>2, <3>5, <4>1
      <4>3. p1 = p0 + (Len(ui) + 1) /\ p1 <= Len(text)
        BY <3>0, <3>2, <3>3, <3>5
      <4> QED BY <4>2, <4>3 DEF U!CharAt
    <3> PICK v : v = NoParts(s)
      OBVIOUS
    <3>8. Put(v, "host", <<>>) = v
      BY PartsPut DEF NoParts
    <3>9. PICK g : m[p1] = U!Run(Put(Put(v, "host", g), "user", Kept(ui)), 0, <<"at", a>>)
      BY <2>2, <3>4, <3>6, <3>7, <3>8, UserTaken
    <3>10. Put(Put(v, "host", g), "user", Kept(ui)) = Parts(s, Kept(ui), g, 0, <<>>, <<>>, <<>>)
      BY PartsPut DEF NoParts
    <3>11. FirstPh(TRUE, a) = <<"at", a>>
      BY DEF FirstPh
    <3>12. m[p1] = U!Run(Parts(s, Kept(ui), g, 0, <<>>, <<>>, <<>>), 0, FirstPh(TRUE, a))
      BY <3>9, <3>10, <3>11
    <3> QED BY <3>12
  <2> QED BY <2>1, <2>2
<1> PICK k : k = Kept(ui)
  OBVIOUS
<1> DEFINE all == AuthorityDone(m, text, l, a, Parts(s, k, h, Number(t), <<>>, <<>>, <<>>))
<1>2. ASSUME NEW b \in BOOLEAN, NEW g, NEW j, NEW v, v = Parts(s, k, g, 0, <<>>, <<>>, <<>>),
             m[p1] = U!Run(v, j, FirstPh(b, a))
      PROVE  all
  <2>1. PICK n \in Nat : n = p2 + 1 /\ n = p1 + Len(h) + 1
    OBVIOUS
  <2>2. HostDone(m, text, n, a, v, Put(v, "host", h))
    BY <1>2, <2>1, HostTaken
  <2> QED BY <1>2, <2>1, <2>2, AfterHost
<1>3. CASE At(TRUE)
  <2> PICK g, j : m[p1] = U!Run(Parts(s, k, g, 0, <<>>, <<>>, <<>>), j, FirstPh(TRUE, a))
    BY <1>3
  <2> PICK v : v = Parts(s, k, g, 0, <<>>, <<>>, <<>>)
    OBVIOUS
  <2>1. m[p1] = U!Run(v, j, FirstPh(TRUE, a))
    OBVIOUS
  <2>2. all
    <3> HIDE DEF all
    <3> QED BY <1>2, <2>1
  <2> QED BY <2>2
<1>4. CASE At(FALSE)
  <2> PICK g, j : m[p1] = U!Run(Parts(s, k, g, 0, <<>>, <<>>, <<>>), j, FirstPh(FALSE, a))
    BY <1>4
  <2> PICK v : v = Parts(s, k, g, 0, <<>>, <<>>, <<>>)
    OBVIOUS
  <2>1. m[p1] = U!Run(v, j, FirstPh(FALSE, a))
    OBVIOUS
  <2>2. all
    <3> HIDE DEF all
    <3> QED BY <1>2, <2>1
  <2> QED BY <2>2
<1> QED BY <1>1, <1>3, <1>4

-----------------------------------------------------------------------------
\* The text of a URL is its parts one behind the other.
UrlFront(sc) == (IF sc = <<>> THEN <<>> ELSE sc \o <<":">>) \o <<"/", "/">>
TextOf(sc, ui, h, po, pa, qu, fr) ==
  UrlFront(sc) \o UserPart(ui) \o h \o U!After(":", po) \o pa \o U!After("?", qu) \o U!After("#", fr)

IsCat(w, x, y) == w = x \o y

LEMMA CatHolds ==
  ASSUME NEW text, NEW x \in Seq(UrlChars), NEW y \in Seq(UrlChars), NEW w, IsCat(w, x, y), Holds(text, 0, w)
  PROVE  Holds(text, 0, x) /\ Holds(text, Len(x), y) /\ Len(w) = Len(x) + Len(y)
<1> HIDE DEF UrlChars
<1>1. /\ Len(x) \in Nat /\ Len(y) \in Nat /\ Len(w) = Len(x) + Len(y)
      /\ \A i \in 1 .. Len(x) : w[i] = x[i]
      /\ \A i \in 1 .. Len(y) : w[Len(x) + i] = y[i]
  BY DEF IsCat
<1>2. 0 + Len(w) <= Len(text) /\ \A i \in 1 .. Len(w) : text[0 + i] = w[i]
  BY DEF Holds
<1>3. Holds(text, 0, x)
  <2>1. \A i \in 1 .. Len(x) : text[0 + i] = x[i]
    <3> TAKE i \in 1 .. Len(x)
    <3>1. i \in 1 .. Len(w)
      BY <1>1
    <3> QED BY <1>1, <1>2, <3>1
  <2>2. 0 + Len(x) <= Len(text)
    BY <1>1, <1>2
  <2> QED BY <2>1, <2>2 DEF Holds
<1>4. Holds(text, Len(x), y)
  <2>1. \A i \in 1 .. Len(y) : text[Len(x) + i] = y[i]
    <3> TAKE i \in 1 .. Len(y)
    <3>1. Len(x) + i \in 1 .. Len(w) /\ 0 + (Len(x) + i) = Len(x) + i
      BY <1>1
    <3> QED BY <1>1, <1>2, <3>1
  <2>2. Len(x) + Len(y) <= Len(text)
    BY <1>1, <1>2
  <2> QED BY <2>1, <2>2 DEF Holds
<1> QED BY <1>1, <1>3, <1>4

LEMMA AfterChars ==
  ASSUME NEW d \in UrlChars, NEW t \in Seq(UrlChars)
  PROVE  U!After(d, t) \in Seq(UrlChars)
<1> HIDE DEF UrlChars
<1> QED BY DEF U!After

\* Where the parts are.
Laid(text, f, ui, h, po, pa, qu, fr, p0, p1, p2, r, q, z) ==
  /\ p0 = Len(f) /\ Holds(text, 0, f)
  /\ Holds(text, p0, UserPart(ui)) /\ p1 = p0 + Len(UserPart(ui))
  /\ Holds(text, p1, h) /\ p2 = p1 + Len(h)
  /\ Part(text, p2, ":", po, r)
  /\ Holds(text, r, pa) /\ q = r + Len(pa)
  /\ Part(text, q, "?", qu, z) /\ Part(text, z, "#", fr, Len(text))

IsLaid(text, f, u, h, a4, pa, a6, a7) == text = f \o u \o h \o a4 \o pa \o a6 \o a7

LEMMA CatExists ==
  ASSUME NEW x \in Seq(UrlChars), NEW y \in Seq(UrlChars)
  PROVE  \E w \in Seq(UrlChars) : IsCat(w, x, y)
<1> HIDE DEF UrlChars
<1>1. x \o y \in Seq(UrlChars)
  OBVIOUS
<1> QED BY <1>1 DEF IsCat

LEMMA CatWhole ==
  ASSUME NEW text, NEW x \in Seq(UrlChars), NEW y \in Seq(UrlChars), IsCat(text, x, y)
  PROVE  Holds(text, 0, x) /\ Holds(text, Len(x), y) /\ Len(text) = Len(x) + Len(y)
<1> HIDE DEF UrlChars
<1>1. \A w : IsCat(w, x, y) /\ Holds(text, 0, w) =>
        Holds(text, 0, x) /\ Holds(text, Len(x), y) /\ Len(w) = Len(x) + Len(y)
  BY CatHolds
<1>2. text \in Seq(UrlChars)
  BY DEF IsCat
<1>3. Holds(text, 0, text)
  BY <1>2 DEF Holds
<1> QED BY <1>1, <1>3

\* The seven texts one after the other.
Row(text, f, u, h, a4, pa, a6, a7) ==
  /\ text \in Seq(UrlChars) /\ Holds(text, 0, f)
  /\ \E p0 \in Nat, p1 \in Nat, p2 \in Nat, r \in Nat, q \in Nat, z \in Nat :
       /\ p0 = Len(f) /\ Holds(text, p0, u) /\ p1 = p0 + Len(u)
       /\ Holds(text, p1, h) /\ p2 = p1 + Len(h)
       /\ Holds(text, p2, a4) /\ r = p2 + Len(a4)
       /\ Holds(text, r, pa) /\ q = r + Len(pa)
       /\ Holds(text, q, a6) /\ z = q + Len(a6)
       /\ Holds(text, z, a7) /\ Len(text) = z + Len(a7)

LEMMA LaidBehind ==
  ASSUME NEW f \in Seq(UrlChars), NEW u \in Seq(UrlChars), NEW h \in Seq(UrlChars), NEW a4 \in Seq(UrlChars),
         NEW pa \in Seq(UrlChars), NEW a6 \in Seq(UrlChars), NEW a7 \in Seq(UrlChars),
         NEW text, IsLaid(text, f, u, h, a4, pa, a6, a7)
  PROVE  Row(text, f, u, h, a4, pa, a6, a7)
<1> HIDE DEF UrlChars
<1> PICK w2 \in Seq(UrlChars) : IsCat(w2, f, u)
  BY CatExists
<1> PICK w3 \in Seq(UrlChars) : IsCat(w3, w2, h)
  BY CatExists
<1> PICK w4 \in Seq(UrlChars) : IsCat(w4, w3, a4)
  BY CatExists
<1> PICK w5 \in Seq(UrlChars) : IsCat(w5, w4, pa)
  BY CatExists
<1> PICK w6 \in Seq(UrlChars) : IsCat(w6, w5, a6)
  BY CatExists
<1>1. IsCat(text, w6, a7)
  BY DEF IsCat, IsLaid
<1>2. text \in Seq(UrlChars)
  BY <1>1 DEF IsCat
<1>7. Holds(text, 0, w6) /\ Holds(text, Len(w6), a7) /\ Len(text) = Len(w6) + Len(a7)
  <2>1. \A x \in Seq(UrlChars), y \in Seq(UrlChars) : IsCat(text, x, y) =>
          Holds(text, 0, x) /\ Holds(text, Len(x), y) /\ Len(text) = Len(x) + Len(y)
    BY CatWhole
  <2> QED BY <1>1, <2>1
<1>8. Holds(text, 0, w5) /\ Holds(text, Len(w5), a6) /\ Len(w6) = Len(w5) + Len(a6)
  BY <1>7, CatHolds
<1>9. Holds(text, 0, w4) /\ Holds(text, Len(w4), pa) /\ Len(w5) = Len(w4) + Len(pa)
  BY <1>8, CatHolds
<1>10. Holds(text, 0, w3) /\ Holds(text, Len(w3), a4) /\ Len(w4) = Len(w3) + Len(a4)
  BY <1>9, CatHolds
<1>11. Holds(text, 0, w2) /\ Holds(text, Len(w2), h) /\ Len(w3) = Len(w2) + Len(h)
  BY <1>10, CatHolds
<1>12. Holds(text, 0, f) /\ Holds(text, Len(f), u) /\ Len(w2) = Len(f) + Len(u)
  BY <1>11, CatHolds
<1>13. /\ Len(f) \in Nat /\ Len(w2) \in Nat /\ Len(w3) \in Nat /\ Len(w4) \in Nat /\ Len(w5) \in Nat
       /\ Len(w6) \in Nat
  OBVIOUS
<1> QED BY <1>2, <1>7, <1>8, <1>9, <1>10, <1>11, <1>12, <1>13 DEF Row

LEMMA LaidOut ==
  ASSUME NEW f \in Seq(UrlChars), NEW ui \in Seq(UrlChars), NEW h \in Seq(UrlChars), NEW po \in Seq(UrlChars),
         NEW pa \in Seq(UrlChars), NEW qu \in Seq(UrlChars), NEW fr \in Seq(UrlChars), NEW text,
         IsLaid(text, f, UserPart(ui), h, U!After(":", po), pa, U!After("?", qu), U!After("#", fr))
  PROVE  /\ text \in Seq(UrlChars)
         /\ \E p0 \in Nat, p1 \in Nat, p2 \in Nat, r \in Nat, q \in Nat, z \in Nat :
              Laid(text, f, ui, h, po, pa, qu, fr, p0, p1, p2, r, q, z)
<1>0. ":" \in UrlChars /\ "?" \in UrlChars /\ "#" \in UrlChars /\ "@" \in UrlChars
  BY DEF UrlChars
<1> HIDE DEF UrlChars
<1>1. /\ UserPart(ui) \in Seq(UrlChars) /\ U!After(":", po) \in Seq(UrlChars)
      /\ U!After("?", qu) \in Seq(UrlChars) /\ U!After("#", fr) \in Seq(UrlChars)
  <2>1. UserPart(ui) \in Seq(UrlChars)
    BY <1>0 DEF UserPart
  <2> QED BY <1>0, <2>1, AfterChars
<1> DEFINE u == UserPart(ui)
           a4 == U!After(":", po)
           a6 == U!After("?", qu)
           a7 == U!After("#", fr)
<1>2. u \in Seq(UrlChars) /\ a4 \in Seq(UrlChars) /\ a6 \in Seq(UrlChars) /\ a7 \in Seq(UrlChars)
  BY <1>1
<1>3. IsLaid(text, f, u, h, a4, pa, a6, a7)
  OBVIOUS
<1>4. Row(text, f, u, h, a4, pa, a6, a7)
  <2> HIDE DEF u, a4, a6, a7
  <2> QED BY <1>2, <1>3, LaidBehind
<1> QED BY <1>4, ZenonT(60) DEF Row, Laid, Part

-----------------------------------------------------------------------------
\* What a Uri is for the parts of a URL.
IsParts(sc, ui, h, po, pa, qu, fr) ==
  /\ IsScheme(sc) /\ IsUser(ui) /\ IsHost(h) /\ IsPort(po) /\ IsPath(pa) /\ IsQuery(qu) /\ IsQuery(fr)

MadeOf(sc, ui, h, po, pa, qu, fr) ==
  Parts(sc, Kept(ui), h, Number(po), IF sc = <<>> THEN <<>> ELSE pa, qu, fr)

LEMMA HostChars ==
  ASSUME NEW t, IsHost(t)
  PROVE  t \in Seq(UrlChars)
<1>1. CASE Spelled(t, regchar)
  <2>1. regchar \in SUBSET UrlChars
    BY Disjoint DEF UrlChars
  <2> HIDE DEF regchar, UrlChars
  <2> QED BY <1>1, <2>1, SpelledIs
<1>2. CASE Bracketed(t)
  BY <1>2, BracketedIs DEF InBrackets
<1> QED BY <1>1, <1>2 DEF IsHost

LEMMA SchemeIn ==
  ASSUME NEW s, IsScheme(s)
  PROVE  s \in Seq(UrlChars) /\ UrlFront(s) \in Seq(UrlChars)
<1>1. SchemeChars \subseteq UrlChars /\ ":" \in UrlChars /\ "/" \in UrlChars
  BY Disjoint DEF SchemeChars, UrlChars
<1> HIDE DEF SchemeChars, UrlChars
<1>2. s \in Seq(UrlChars)
  BY <1>1 DEF IsScheme
<1>3. <<"/", "/">> \in Seq(UrlChars) /\ <<":">> \in Seq(UrlChars) /\ <<>> \in Seq(UrlChars)
  BY <1>1
<1>4. (IF s = <<>> THEN <<>> ELSE s \o <<":">>) \in Seq(UrlChars)
  BY <1>2, <1>3
<1> QED BY <1>2, <1>3, <1>4 DEF UrlFront

-----------------------------------------------------------------------------
\* Create takes the parts off again.
\* The automaton is behind "//": the phase tells whether there was a scheme.
Fronted(m, p, sc) == \E j : m[p] = U!Run(NoParts(sc), j, <<"auth", sc # <<>> >>)

LEMMA TwoCats ==
  ASSUME NEW text, NEW x \in Seq(UrlChars), NEW y \in Seq(UrlChars), NEW z \in Seq(UrlChars),
         NEW w \in Seq(UrlChars), NEW f, IsCat(f, w, z), IsCat(w, x, y), Holds(text, 0, f)
  PROVE  /\ Holds(text, 0, x) /\ Holds(text, Len(x), y) /\ Holds(text, Len(w), z)
         /\ Len(f) = Len(w) + Len(z) /\ Len(w) = Len(x) + Len(y)
<1>1. Holds(text, 0, w) /\ Holds(text, Len(w), z) /\ Len(f) = Len(w) + Len(z)
  BY CatHolds
<1>2. Holds(text, 0, x) /\ Holds(text, Len(x), y) /\ Len(w) = Len(x) + Len(y)
  BY <1>1, CatHolds
<1> QED BY <1>1, <1>2

LEMMA FrontIs ==
  ASSUME NEW text, NEW sc, IsScheme(sc), sc # <<>>, Holds(text, 0, UrlFront(sc))
  PROVE  /\ Holds(text, 0, sc) /\ Holds(text, Len(sc), <<":">>) /\ Holds(text, Len(sc) + 1, Slashes)
         /\ Len(UrlFront(sc)) = Len(sc) + 3
<1>0. ":" \in UrlChars /\ "/" \in UrlChars
  BY DEF UrlChars
<1>1. sc \in Seq(UrlChars)
  BY SchemeIn
<1> HIDE DEF UrlChars
<1>2. /\ Slashes \in Seq(UrlChars) /\ Len(Slashes) = 2 /\ <<":">> \in Seq(UrlChars) /\ Len(<<":">>) = 1
      /\ Len(sc) \in Nat
  BY <1>0, <1>1 DEF Slashes
<1>3. PICK w \in Seq(UrlChars) : IsCat(w, sc, <<":">>)
  BY <1>1, <1>2, CatExists
<1>4. IsCat(UrlFront(sc), w, Slashes)
  BY <1>3 DEF UrlFront, Slashes, IsCat
<1> DEFINE f == UrlFront(sc)
           colon == <<":">>
<1>5. /\ Holds(text, 0, f) /\ IsCat(f, w, Slashes) /\ IsCat(w, sc, colon) /\ colon \in Seq(UrlChars)
      /\ Len(colon) = 1
  BY <1>2, <1>3, <1>4
<1> HIDE DEF f, colon
<1>6. /\ Holds(text, 0, sc) /\ Holds(text, Len(sc), colon) /\ Holds(text, Len(w), Slashes)
      /\ Len(f) = Len(w) + Len(Slashes) /\ Len(w) = Len(sc) + Len(colon)
  <2>1. sc \in Seq(UrlChars)
    BY <1>1
  <2>2. Slashes \in Seq(UrlChars)
    BY <1>2
  <2>3. colon \in Seq(UrlChars)
    BY <1>5
  <2>4. IsCat(f, w, Slashes)
    BY <1>5
  <2>5. IsCat(w, sc, colon)
    BY <1>5
  <2>6. Holds(text, 0, f)
    BY <1>5
  <2>7. \A x \in Seq(UrlChars), y \in Seq(UrlChars), z \in Seq(UrlChars) :
          IsCat(f, w, z) /\ IsCat(w, x, y) =>
            /\ Holds(text, 0, x) /\ Holds(text, Len(x), y) /\ Holds(text, Len(w), z)
            /\ Len(f) = Len(w) + Len(z) /\ Len(w) = Len(x) + Len(y)
    BY <2>6, TwoCats, SMTT(60)
  <2> QED BY <2>1, <2>2, <2>3, <2>4, <2>5, <2>7
<1>8. Len(w) = Len(sc) + 1 /\ Len(f) = Len(sc) + 3
  BY <1>2, <1>5, <1>6
<1> QED BY <1>6, <1>8 DEF f, colon

LEMMA StartOf ==
  ASSUME NEW m, NEW text, Scan(m, text), m[0] = U!Run(U!NewUri, U!Null, <<"start">>),
         NEW sc, IsScheme(sc), Holds(text, 0, UrlFront(sc)), NEW p \in Nat, p = Len(UrlFront(sc))
  PROVE  Fronted(m, p, sc)
<1>0. ":" \in UrlChars /\ "/" \in UrlChars
  BY DEF UrlChars
<1>1. sc \in Seq(UrlChars)
  BY SchemeIn
<1> HIDE DEF UrlChars
<1>2. Slashes \in Seq(UrlChars) /\ Len(Slashes) = 2 /\ <<":">> \in Seq(UrlChars) /\ Len(<<":">>) = 1
  BY <1>0 DEF Slashes
<1>3. CASE sc = <<>>
  <2>1. UrlFront(sc) = Slashes
    BY <1>3, <1>2 DEF UrlFront, Slashes
  <2>2. Holds(text, 0, Slashes) /\ p = 2
    BY <2>1, <1>2
  <2>3. \E j : m[2] = U!Run(NoParts(<<>>), j, <<"auth", FALSE>>)
    BY <2>2, StartTaken
  <2>4. (sc # <<>>) = FALSE
    BY <1>3
  <2> QED BY <1>3, <2>2, <2>3, <2>4 DEF Fronted
<1>4. CASE sc # <<>>
  <2> DEFINE f == UrlFront(sc)
             colon == <<":">>
  <2>a. f = UrlFront(sc) /\ p = Len(f) /\ Len(colon) = 1
    OBVIOUS
  <2>4. /\ Holds(text, 0, sc) /\ Holds(text, Len(sc), colon) /\ Holds(text, Len(sc) + 1, Slashes)
        /\ Len(UrlFront(sc)) = Len(sc) + 3
    BY <1>4, FrontIs
  <2> DEFINE q == Len(sc)
             r == q + 1
  <2>5. q \in Nat /\ r \in Nat /\ p = r + 2
    BY <2>4, <2>a, <1>1, <1>2
  <2>6. Holds(text, r, Slashes)
    BY <2>4, <2>5
  <2>7. \E j : m[p] = U!Run(NoParts(sc), j, <<"auth", TRUE>>)
    <3>1. q \in Nat /\ q = Len(sc) /\ r = q + 1 /\ Holds(text, q, <<":">>)
      BY <2>4, <2>5 DEF colon
    <3> HIDE DEF q, r
    <3> QED BY <1>4, <2>4, <2>5, <2>6, <3>1, SchemeTaken
  <2>8. (sc # <<>>) = TRUE
    BY <1>4
  <2> QED BY <2>7, <2>8 DEF Fronted
<1> QED BY <1>3, <1>4

\* What is behind the authority: the path, or what is behind it.
LEMMA PathFirst ==
  ASSUME NEW text \in Seq(UrlChars), NEW pa, IsPath(pa), NEW r \in Nat, NEW q \in Nat, q = r + Len(pa),
         Holds(text, r, pa), U!CharAt(text, q + 1) \in Behinds
  PROVE  U!CharAt(text, r + 1) \in Ends
<1>1. CASE pa = <<>>
  <2>1. q = r
    BY <1>1
  <2> QED BY <2>1 DEF Ends
<1>2. CASE pa # <<>>
  <2>1. pa \in Seq(UrlChars) /\ pa[1] = "/"
    BY <1>2, PathChars DEF IsPath
  <2> HIDE DEF UrlChars
  <2>2. Len(pa) \in Nat /\ Len(pa) >= 1
    BY <1>2, <2>1
  <2>3. text[r + 1] = pa[1] /\ r + 1 <= Len(text)
    BY <2>2 DEF Holds
  <2>4. U!CharAt(text, r + 1) = "/"
    BY <2>1, <2>3 DEF U!CharAt
  <2> QED BY <2>4 DEF Ends
<1> QED BY <1>1, <1>2

LEMMA TailBehind ==
  ASSUME NEW m, NEW text, Scan(m, text), NEW a \in BOOLEAN,
         NEW pa, IsPath(pa), NEW qu, IsQuery(qu), NEW fr, IsQuery(fr),
         NEW p \in Nat, NEW q \in Nat, q = p + Len(pa), Holds(text, p, pa),
         NEW r \in Nat, Part(text, q, "?", qu, r), Part(text, r, "#", fr, Len(text)),
         NEW s, NEW u, NEW h, NEW n, NEW l, l = p + 1,
         AuthorityDone(m, text, l, a, Parts(s, u, h, n, <<>>, <<>>, <<>>))
  PROVE  \E k : m[Len(text) + 1]
                  = U!Run(Parts(s, u, h, n, PathOf(a, pa), qu, fr), k, <<"final">>)
<1>1. PICK j : /\ m[p + 1] = U!Run(Parts(s, u, h, n, <<>>, <<>>, <<>>), j, Enter(U!CharAt(text, p + 1), a))
               /\ a /\ U!CharAt(text, p + 1) = "/" => j = p + 1
  BY DEF AuthorityDone
<1>2. m[p + 1] = U!Run(Parts(s, u, h, n, <<>>, <<>>, <<>>), j, Enter(U!CharAt(text, p + 1), a))
  BY <1>1
<1>3. a /\ U!CharAt(text, p + 1) = "/" => j = p + 1
  BY <1>1
<1> QED BY <1>2, <1>3, TailTaken

Starts(m) == m[0] = U!Run(U!NewUri, U!Null, <<"start">>)
Ended(m, text, v) == \E k : m[Len(text) + 1] = U!Run(v, k, <<"final">>)

LEMMA TakenApart ==
  ASSUME NEW m, NEW text, Scan(m, text), Starts(m),
         NEW sc, IsScheme(sc), NEW ui, IsUser(ui), NEW h, IsHost(h), NEW po, IsPort(po),
         NEW pa, IsPath(pa), NEW qu, IsQuery(qu), NEW fr, IsQuery(fr),
         NEW p0 \in Nat, NEW p1 \in Nat, NEW p2 \in Nat, NEW r \in Nat, NEW q \in Nat, NEW z \in Nat,
         Laid(text, UrlFront(sc), ui, h, po, pa, qu, fr, p0, p1, p2, r, q, z)
  PROVE  Ended(m, text, MadeOf(sc, ui, h, po, pa, qu, fr))
<1> DEFINE a == sc # <<>>
           l == r + 1
<1>0. text \in Seq(UrlChars) /\ qu \in Seq(UrlChars) /\ fr \in Seq(UrlChars)
  BY QueryChars DEF Scan
<1>1. /\ p0 = Len(UrlFront(sc)) /\ Holds(text, 0, UrlFront(sc))
      /\ Holds(text, p0, UserPart(ui)) /\ p1 = p0 + Len(UserPart(ui))
      /\ Holds(text, p1, h) /\ p2 = p1 + Len(h)
      /\ Part(text, p2, ":", po, r)
      /\ Holds(text, r, pa) /\ q = r + Len(pa)
      /\ Part(text, q, "?", qu, z) /\ Part(text, z, "#", fr, Len(text))
  BY DEF Laid
<1>2. Fronted(m, p0, sc)
  BY <1>1, StartOf DEF Starts
<1>3. U!CharAt(text, q + 1) \in Behinds
  BY <1>0, <1>1, TailChars
<1>4. U!CharAt(text, l) \in Ends
  BY <1>0, <1>1, <1>3, PathFirst
<1>5. a \in BOOLEAN /\ l \in Nat /\ l = r + 1
  OBVIOUS
<1>6. \E j : m[p0] = U!Run(NoParts(sc), j, <<"auth", a>>)
  BY <1>2 DEF Fronted
<1> HIDE DEF a, l
<1>7. AuthorityDone(m, text, l, a, Parts(sc, Kept(ui), h, Number(po), <<>>, <<>>, <<>>))
  <2>1. PICK j0 : m[p0] = U!Run(NoParts(sc), j0, <<"auth", a>>)
    BY <1>6
  <2> QED BY <1>1, <1>4, <1>5, <2>1, AuthorityTaken
<1>9. \E k : m[Len(text) + 1] = U!Run(Parts(sc, Kept(ui), h, Number(po), PathOf(a, pa), qu, fr),
                                         k, <<"final">>)
  BY <1>1, <1>5, <1>7, TailBehind
<1>10. Parts(sc, Kept(ui), h, Number(po), PathOf(a, pa), qu, fr) = MadeOf(sc, ui, h, po, pa, qu, fr)
  BY DEF MadeOf, PathOf, a
<1> QED BY <1>9, <1>10, Zenon DEF Ended

-----------------------------------------------------------------------------
\* What Create returns.
LEMMA PartsChars ==
  ASSUME NEW sc, NEW ui, NEW h, NEW po, NEW pa, NEW qu, NEW fr, IsParts(sc, ui, h, po, pa, qu, fr)
  PROVE  /\ UrlFront(sc) \in Seq(UrlChars) /\ ui \in Seq(UrlChars) /\ h \in Seq(UrlChars)
         /\ po \in Seq(UrlChars) /\ pa \in Seq(UrlChars) /\ qu \in Seq(UrlChars) /\ fr \in Seq(UrlChars)
<1>1. UrlFront(sc) \in Seq(UrlChars) /\ h \in Seq(UrlChars)
  BY SchemeIn, HostChars DEF IsParts
<1>2. ui \in Seq(UrlChars)
  BY UserChars DEF IsParts
<1>3. po \in Seq(UrlChars)
  <2>1. Digit \subseteq UrlChars
    BY Disjoint DEF UrlChars
  <2> HIDE DEF UrlChars
  <2> QED BY <2>1 DEF IsParts, IsPort
<1>4. pa \in Seq(UrlChars) /\ qu \in Seq(UrlChars) /\ fr \in Seq(UrlChars)
  BY PathChars, QueryChars DEF IsParts
<1> QED BY <1>1, <1>2, <1>3, <1>4

LEMMA MadeFrom ==
  ASSUME NEW text, NEW k, NEW v, U!Parsed(text) = U!Run(v, k, <<"final">>)
  PROVE  U!Create(text) = [is |-> "uri", uri |-> v]
<1>1. U!Run(v, k, <<"final">>).at[1] = "final" /\ U!Run(v, k, <<"final">>).uri = v
  BY DEF U!Run
<1> QED BY <1>1 DEF U!Create

LaidAt(text, sc, ui, h, po, pa, qu, fr) ==
  \E p0 \in Nat, p1 \in Nat, p2 \in Nat, r \in Nat, q \in Nat, z \in Nat :
    Laid(text, UrlFront(sc), ui, h, po, pa, qu, fr, p0, p1, p2, r, q, z)

LEMMA PartsScanned ==
  ASSUME NEW m, NEW text, Scan(m, text), Starts(m),
         NEW sc, NEW ui, NEW h, NEW po, NEW pa, NEW qu, NEW fr, IsParts(sc, ui, h, po, pa, qu, fr),
         LaidAt(text, sc, ui, h, po, pa, qu, fr)
  PROVE  Ended(m, text, MadeOf(sc, ui, h, po, pa, qu, fr))
<1>1. /\ IsScheme(sc) /\ IsUser(ui) /\ IsHost(h) /\ IsPort(po) /\ IsPath(pa) /\ IsQuery(qu)
      /\ IsQuery(fr)
  BY DEF IsParts
<1>3. PICK p0 \in Nat, p1 \in Nat, p2 \in Nat, r \in Nat, q \in Nat, z \in Nat :
        Laid(text, UrlFront(sc), ui, h, po, pa, qu, fr, p0, p1, p2, r, q, z)
  BY DEF LaidAt
<1> QED BY <1>1, <1>3, TakenApart

LEMMA CreateMakes ==
  ASSUME NEW sc, NEW ui, NEW h, NEW po, NEW pa, NEW qu, NEW fr, IsParts(sc, ui, h, po, pa, qu, fr),
         NEW text, text = TextOf(sc, ui, h, po, pa, qu, fr)
  PROVE  U!Create(text) = [is |-> "uri", uri |-> MadeOf(sc, ui, h, po, pa, qu, fr)]
<1> DEFINE f == UrlFront(sc)
<1>1. IsLaid(text, f, UserPart(ui), h, U!After(":", po), pa, U!After("?", qu), U!After("#", fr))
  BY DEF IsLaid, TextOf
<1>2. /\ f \in Seq(UrlChars) /\ ui \in Seq(UrlChars) /\ h \in Seq(UrlChars)
      /\ po \in Seq(UrlChars) /\ pa \in Seq(UrlChars) /\ qu \in Seq(UrlChars) /\ fr \in Seq(UrlChars)
  BY PartsChars
<1>3. /\ text \in Seq(UrlChars)
      /\ \E p0 \in Nat, p1 \in Nat, p2 \in Nat, r \in Nat, q \in Nat, z \in Nat :
           Laid(text, f, ui, h, po, pa, qu, fr, p0, p1, p2, r, q, z)
  <2> HIDE DEF f
  <2> QED BY <1>1, <1>2, LaidOut
<1>4. PICK m : /\ m[0] = U!Run(U!NewUri, U!Null, <<"start">>)
               /\ Runs(m, text, 0, Len(text) + 1)
               /\ U!Parsed(text) = m[Len(text) + 1]
  BY <1>3, ParsedRuns
<1>5. Scan(m, text)
  BY <1>3, <1>4 DEF Scan
<1>6. LaidAt(text, sc, ui, h, po, pa, qu, fr)
  BY <1>3 DEF LaidAt
<1>7. Starts(m)
  BY <1>4 DEF Starts
<1>8. Ended(m, text, MadeOf(sc, ui, h, po, pa, qu, fr))
  BY <1>5, <1>6, <1>7, PartsScanned
<1> DEFINE v == MadeOf(sc, ui, h, po, pa, qu, fr)
<1>9. \E k : U!Parsed(text) = U!Run(v, k, <<"final">>)
  BY <1>4, <1>8 DEF Ended
<1> HIDE DEF v
<1> QED BY <1>9, MadeFrom DEF v

-----------------------------------------------------------------------------
\* What Create keeps of the user information is user information again.
LEMMA NumberNat == ASSUME NEW t \in Seq(Digit) PROVE Number(t) \in Nat
<1> HIDE DEF Digit
<1> PICK n \in Nat : n = Len(t)
  OBVIOUS
<1>1. DigitsOf(t) = n
  BY DigitsAre
<1>2. PICK f : Summed(f, t, n) /\ Number(t) = f[n]
  BY <1>1, NumberIs
<1>3. f[0] = 0 /\ \A i \in 1 .. n : f[i] = 10 * f[i - 1] + Value(t[i])
  BY <1>2, SummedRound
<1>4. ASSUME NEW i \in 1 .. n PROVE Value(t[i]) \in Nat
  <2>1. t[i] \in Digit
    BY <1>4
  <2>2. Value(t[i]) \in 0 .. 9
    BY <2>1, DigitValue
  <2> QED BY <2>2
<1> DEFINE Bad == {k \in Nat : k <= n /\ f[k] \notin Nat}
<1>5. SUFFICES ASSUME Bad # {} PROVE FALSE
  BY <1>2
<1>6. PICK x \in Bad : x \in Nat /\ \A k \in Bad : x <= k
  <2>1. Bad \in SUBSET Nat
    OBVIOUS
  <2> HIDE DEF Bad
  <2> QED BY <1>5, <2>1, LeastExists
<1>7. x \in Nat /\ x <= n /\ f[x] \notin Nat
  BY <1>6
<1>8. x # 0
  BY <1>3, <1>7
<1>9. x - 1 \in Nat /\ x - 1 <= n /\ x - 1 < x /\ x \in 1 .. n
  BY <1>7, <1>8
<1>10. f[x - 1] \in Nat
  <2>1. x - 1 \notin Bad
    BY <1>6, <1>9
  <2> QED BY <1>9, <2>1
<1>11. f[x] = 10 * f[x - 1] + Value(t[x]) /\ Value(t[x]) \in Nat
  BY <1>3, <1>4, <1>9
<1> QED BY <1>7, <1>10, <1>11

\* A text of escapes keeps them whole when its head is left out.
LEMMA SpelledTail ==
  ASSUME NEW S, NEW t, Spelled(t, S), NEW f \in Nat, f < Len(t)
  PROVE  Spelled(SubSeq(t, f + 1, Len(t)), S)
<1> DEFINE s == SubSeq(t, f + 1, Len(t))
           T == S \cup {"%"}
<1>1. t \in Seq(T) /\ Len(t) \in Nat
  BY DEF Spelled
<1>2. s \in Seq(T) /\ Len(s) = Len(t) - f /\ \A i \in 1 .. Len(s) : s[i] = t[f + i]
  <2> HIDE DEF T
  <2> QED BY <1>1
<1>3. ASSUME NEW i \in 1 .. Len(s), s[i] = "%"
      PROVE  i + 2 <= Len(s) /\ {s[i + 1], s[i + 2]} \subseteq XDigit
  <2>1. f + i \in 1 .. Len(t) /\ t[f + i] = "%" /\ i \in Nat /\ Len(s) \in Nat
    BY <1>1, <1>2, <1>3
  <2>2. (f + i) + 2 <= Len(t) /\ {t[(f + i) + 1], t[(f + i) + 2]} \subseteq XDigit
    BY <2>1 DEF Spelled
  <2>3. i + 2 <= Len(s) /\ i + 1 \in 1 .. Len(s) /\ i + 2 \in 1 .. Len(s)
    BY <1>1, <1>2, <2>1, <2>2
  <2>4. s[i + 1] = t[f + (i + 1)] /\ s[i + 2] = t[f + (i + 2)]
    BY <1>2, <2>3
  <2>5. f + (i + 1) = (f + i) + 1 /\ f + (i + 2) = (f + i) + 2
    BY <2>1
  <2>6. {s[i + 1], s[i + 2]} \subseteq XDigit
    <3> HIDE DEF s
    <3> QED BY <2>2, <2>4, <2>5
  <2> QED BY <2>3, <2>6
<1> HIDE DEF s
<1>4. Spelled(s, S)
  BY <1>2, <1>3 DEF Spelled
<1> QED BY <1>4 DEF s

LEMMA KeptUser == ASSUME NEW t, IsUser(t) PROVE IsUser(Kept(t))
<1>1. t \in Seq(UrlChars)
  BY UserChars
<1>2. CASE \A i \in 1 .. Len(t) : t[i] # ":"
  <2>1. Kept(t) = t
    BY <1>1, <1>2, KeptIs
  <2> QED BY <2>1
<1>3. CASE ~ \A i \in 1 .. Len(t) : t[i] # ":"
  <2>1. PICK i \in 1 .. Len(t) : t[i] = ":"
    BY <1>3
  <2>2. PICK f : FirstColon(t, f)
    BY <1>1, <2>1, FirstColonExists
  <2>3. Kept(t) = IF f < Len(t) /\ t[f + 1] \in Digit THEN SubSeq(t, f + 1, Len(t)) ELSE t
    BY <1>1, <2>2, KeptIs
  <2>4. CASE f < Len(t) /\ t[f + 1] \in Digit
    <3>1. Kept(t) = SubSeq(t, f + 1, Len(t))
      BY <2>3, <2>4
    <3>2. f \in Nat
      BY <2>2 DEF FirstColon
    <3>3. Spelled(t, regchar \cup {":"})
      BY DEF IsUser
    <3>4. \A S : Spelled(t, S) => Spelled(SubSeq(t, f + 1, Len(t)), S)
      BY <2>4, <3>2, SpelledTail
    <3> QED BY <3>1, <3>3, <3>4 DEF IsUser
  <2>5. CASE ~(f < Len(t) /\ t[f + 1] \in Digit)
    <3>1. Kept(t) = t
      BY <2>3, <2>5
    <3> QED BY <3>1
  <2> QED BY <2>4, <2>5
<1> QED BY <1>2, <1>3

-----------------------------------------------------------------------------
\* dump() writes the text of a URL.
LEMMA ThreeChars == ASSUME NEW s \in Seq(UrlChars) PROVE (s \o <<":">>) \o <<"/", "/">> = s \o <<":", "/", "/">>
<1>1. ":" \in UrlChars /\ "/" \in UrlChars
  BY DEF UrlChars
<1> HIDE DEF UrlChars
<1>2. <<":">> \in Seq(UrlChars) /\ <<"/", "/">> \in Seq(UrlChars)
  BY <1>1
<1>3. <<":">> \o <<"/", "/">> = <<":", "/", "/">>
  <2> DEFINE x == <<":">>
             y == <<"/", "/">>
             z == <<":", "/", "/">>
  <2>1. x \in Seq(UrlChars) /\ Len(x) = 1 /\ x[1] = ":"
    BY <1>1
  <2>2. y \in Seq(UrlChars) /\ Len(y) = 2 /\ y[1] = "/" /\ y[2] = "/"
    BY <1>1
  <2>3. z \in Seq(UrlChars) /\ Len(z) = 3 /\ z[1] = ":" /\ z[2] = "/" /\ z[3] = "/"
    BY <1>1
  <2> HIDE DEF x, y, z
  <2>c. /\ x \o y \in Seq(UrlChars) /\ Len(x \o y) = Len(x) + Len(y)
        /\ \A i \in 1 .. Len(x) + Len(y) : (x \o y)[i] = IF i <= Len(x) THEN x[i] ELSE y[i - Len(x)]
    BY <2>1, <2>2, ConcatProperties
  <2>4. x \o y \in Seq(UrlChars) /\ Len(x \o y) = 3
    BY <2>1, <2>2, <2>c
  <2>5. (x \o y)[1] = ":" /\ (x \o y)[2] = "/" /\ (x \o y)[3] = "/"
    BY <2>1, <2>2, <2>c
  <2>6. \A i \in 1 .. Len(x \o y) : (x \o y)[i] = z[i]
    <3> TAKE i \in 1 .. Len(x \o y)
    <3>1. i = 1 \/ i = 2 \/ i = 3
      BY <2>4
    <3> QED BY <2>3, <2>5, <3>1
  <2>7. x \o y = z
    BY <2>3, <2>4, <2>6, SeqEqual
  <2> QED BY <2>7 DEF x, y, z
<1>4. (s \o <<":">>) \o <<"/", "/">> = s \o (<<":">> \o <<"/", "/">>)
  <2> DEFINE x == <<":">>
             y == <<"/", "/">>
  <2>1. x \in Seq(UrlChars) /\ y \in Seq(UrlChars)
    BY <1>2
  <2>2. (s \o x) \o y = s \o (x \o y)
    <3> HIDE DEF x, y
    <3> QED BY <2>1, ConcatAssociative
  <2> QED BY <2>2
<1> QED BY <1>3, <1>4

LEMMA UserBehind ==
  ASSUME NEW s \in Seq(UrlChars), NEW t \in Seq(UrlChars)
  PROVE  (s \o t) \o (IF t = <<>> THEN <<>> ELSE <<"@">>) = s \o UserPart(t)
<1>1. "@" \in UrlChars
  BY DEF UrlChars
<1> HIDE DEF UrlChars
<1>2. CASE t = <<>>
  <2>1. s \o <<>> = s
    BY ConcatEmptySeq
  <2>2. (s \o t) \o (IF t = <<>> THEN <<>> ELSE <<"@">>) = (s \o <<>>) \o <<>>
    BY <1>2
  <2>3. UserPart(t) = <<>>
    BY <1>2 DEF UserPart
  <2> QED BY <2>1, <2>2, <2>3
<1>3. CASE t # <<>>
  <2> DEFINE x == <<"@">>
  <2>1. x \in Seq(UrlChars)
    BY <1>1
  <2>2. UserPart(t) = t \o x /\ (IF t = <<>> THEN <<>> ELSE <<"@">>) = x
    BY <1>3 DEF UserPart
  <2>3. (s \o t) \o x = s \o (t \o x)
    <3> HIDE DEF x
    <3> QED BY <2>1, ConcatAssociative
  <2> HIDE DEF x
  <2> QED BY <2>2, <2>3
<1> QED BY <1>2, <1>3

\* The digits of the port in the text dump() writes.
PortText(u) == IF U!isDefaultPort(u) THEN <<>> ELSE U!Decimal(u.port)

LEMMA PortTextIs ==
  ASSUME NEW u, u.port \in Nat
  PROVE  /\ IsPort(PortText(u)) /\ Number(PortText(u)) = IF U!isDefaultPort(u) THEN 0 ELSE u.port
         /\ U!After(":", PortText(u)) = IF U!isDefaultPort(u) THEN <<>> ELSE <<":">> \o U!Decimal(u.port)
<1>1. Names(U!Decimal(u.port), u.port)
  BY DecimalIs
<1>2. CASE U!isDefaultPort(u)
  <2>1. PortText(u) = <<>>
    BY <1>2 DEF PortText
  <2>2. <<>> \in Seq(Digit)
    OBVIOUS
  <2> QED BY <1>2, <2>1, <2>2, NumberNone DEF IsPort, U!After
<1>3. CASE ~U!isDefaultPort(u)
  <2>1. PortText(u) = U!Decimal(u.port)
    BY <1>3 DEF PortText
  <2> HIDE DEF Digit
  <2> QED BY <1>1, <1>3, <2>1 DEF IsPort, U!After, Names
<1> QED BY <1>2, <1>3

LEMMA DumpIs ==
  ASSUME NEW u, u.scheme \in Seq(UrlChars), u.scheme # <<>>, u.userinfo \in Seq(UrlChars), u.port \in Nat
  PROVE  U!dump(u) = TextOf(u.scheme, u.userinfo, u.host, PortText(u), U!getPath(u), u.query, u.fragment)
<1> DEFINE sc == u.scheme
           ui == u.userinfo
           at == IF ui = <<>> THEN <<>> ELSE <<"@">>
           po == IF U!isDefaultPort(u) THEN <<>> ELSE <<":">> \o U!Decimal(u.port)
           tail(x, y) == x \o u.host \o y \o U!getPath(u) \o U!After("?", u.query) \o U!After("#", u.fragment)
<1>1. U!dump(u) = tail(((sc \o <<":", "/", "/">>) \o ui) \o at, po)
  BY DEF U!dump
<1>2. TextOf(u.scheme, u.userinfo, u.host, PortText(u), U!getPath(u), u.query, u.fragment)
        = tail(UrlFront(sc) \o UserPart(ui), U!After(":", PortText(u)))
  BY DEF TextOf
<1>3. UrlFront(sc) = sc \o <<":", "/", "/">> /\ UrlFront(sc) \in Seq(UrlChars)
  <2>1. ":" \in UrlChars /\ "/" \in UrlChars
    BY DEF UrlChars
  <2> HIDE DEF UrlChars
  <2>2. UrlFront(sc) = (sc \o <<":">>) \o <<"/", "/">>
    BY DEF UrlFront
  <2>3. <<":", "/", "/">> \in Seq(UrlChars)
    BY <2>1
  <2>4. sc \o <<":", "/", "/">> \in Seq(UrlChars)
    BY <2>3
  <2> QED BY <2>2, <2>4, ThreeChars
<1>4. ((sc \o <<":", "/", "/">>) \o ui) \o at = UrlFront(sc) \o UserPart(ui)
  BY <1>3, UserBehind
<1>5. po = U!After(":", PortText(u))
  BY PortTextIs
<1> HIDE DEF tail, at, po
<1> QED BY <1>1, <1>2, <1>4, <1>5

-----------------------------------------------------------------------------
\* What dump() writes is taken apart in the same way.
LEMMA GetPathIs == ASSUME NEW u, IsPath(u.path) PROVE IsPath(U!getPath(u))
<1>1. CASE u.path = <<>>
  <2>1. U!getPath(u) = <<"/">>
    BY <1>1 DEF U!getPath
  <2> DEFINE t == <<"/">>
             S == pchar \cup {"/"}
  <2>2. t \in Seq(S \cup {"%"}) /\ Len(t) = 1 /\ t[1] = "/"
    OBVIOUS
  <2>3. \A i \in 1 .. Len(t) : t[i] # "%"
    <3>1. \A i \in 1 .. Len(t) : i = 1
      BY <2>2
    <3>2. "/" # "%"
      OBVIOUS
    <3> HIDE DEF t
    <3> QED BY <2>2, <3>1, <3>2
  <2>4. Spelled(t, S)
    <3> HIDE DEF t, S
    <3> QED BY <2>2, <2>3 DEF Spelled
  <2>5. IsPath(t)
    BY <2>2, <2>4 DEF IsPath
  <2> QED BY <2>1, <2>5
<1>2. CASE u.path # <<>>
  BY <1>2 DEF U!getPath
<1> QED BY <1>1, <1>2

LEMMA RedoneIs ==
  ASSUME NEW s, NEW h, NEW n, NEW p, NEW q, NEW f, NEW ui, NEW u, u = Parts(s, ui, h, n, p, q, f)
  PROVE  Redone(u) = Parts(s, ui, h, IF U!isDefaultPort(u) THEN 0 ELSE n, U!getPath(u), q, f)
<1> DEFINE pb == U!getPath(u)
           v == [u EXCEPT !.path = pb]
<1>1. v = Parts(s, ui, h, n, pb, q, f)
  <2> HIDE DEF pb
  <2> QED BY DEF Parts
<1>2. [Parts(s, ui, h, n, pb, q, f) EXCEPT !.port = 0] = Parts(s, ui, h, 0, pb, q, f)
  <2> HIDE DEF pb
  <2> QED BY DEF Parts
<1>3. Redone(u) = IF U!isDefaultPort(u) THEN [v EXCEPT !.port = 0] ELSE v
  BY DEF Redone
<1> HIDE DEF pb, v
<1>4. CASE U!isDefaultPort(u)
  <2>1. Redone(u) = [v EXCEPT !.port = 0]
    BY <1>3, <1>4
  <2>2. Redone(u) = Parts(s, ui, h, 0, pb, q, f)
    BY <1>1, <1>2, <2>1
  <2> QED BY <1>4, <2>2 DEF pb
<1>5. CASE ~U!isDefaultPort(u)
  BY <1>1, <1>3, <1>5 DEF pb
<1> QED BY <1>4, <1>5

LEMMA DumpCreates ==
  ASSUME NEW sc, IsScheme(sc), sc # <<>>, NEW ui, IsUser(ui), Kept(ui) = ui, NEW h, IsHost(h),
         NEW n \in Nat, NEW pa, IsPath(pa), NEW qu, IsQuery(qu), NEW fr, IsQuery(fr),
         NEW u, u = Parts(sc, ui, h, n, pa, qu, fr)
  PROVE  U!Create(U!dump(u)) = [is |-> "uri", uri |-> Redone(u)]
<1>1. /\ u.scheme = sc /\ u.userinfo = ui /\ u.host = h /\ u.port = n
      /\ u.path = pa /\ u.query = qu /\ u.fragment = fr
  BY PartsAre
<1>2. IsPath(U!getPath(u))
  BY <1>1, GetPathIs
<1>3. IsPort(PortText(u)) /\ Number(PortText(u)) = IF U!isDefaultPort(u) THEN 0 ELSE n
  BY <1>1, PortTextIs
<1> DEFINE po == PortText(u)
           pb == U!getPath(u)
           nn == IF U!isDefaultPort(u) THEN 0 ELSE n
<1>4. U!dump(u) = TextOf(sc, ui, h, po, pb, qu, fr)
  <2>1. u.scheme \in Seq(UrlChars) /\ u.userinfo \in Seq(UrlChars)
    BY <1>1, SchemeIn, UserChars
  <2>2. U!dump(u) = TextOf(u.scheme, u.userinfo, u.host, PortText(u), U!getPath(u), u.query, u.fragment)
    <3> HIDE DEF UrlChars
    <3> QED BY <1>1, <2>1, DumpIs
  <2> QED BY <1>1, <2>2
<1>5. IsParts(sc, ui, h, po, pb, qu, fr)
  BY <1>2, <1>3 DEF IsParts
<1>6. U!Create(U!dump(u)) = [is |-> "uri", uri |-> MadeOf(sc, ui, h, po, pb, qu, fr)]
  <2> HIDE DEF po, pb
  <2> QED BY <1>4, <1>5, CreateMakes
<1>7. MadeOf(sc, ui, h, po, pb, qu, fr) = Parts(sc, ui, h, nn, pb, qu, fr)
  <2>1. Number(po) = nn
    BY <1>3
  <2> HIDE DEF po, pb, nn
  <2> QED BY <2>1 DEF MadeOf
<1>8. Redone(u) = Parts(sc, ui, h, nn, pb, qu, fr)
  BY RedoneIs
<1> HIDE DEF po, pb, nn
<1> QED BY <1>6, <1>7, <1>8

LEMMA UrlIs ==
  ASSUME NEW u \in Urls
  PROVE  /\ IsParts(u.scheme, u.userinfo, u.host, u.port, u.path, u.query, u.fragment)
         /\ UrlText(u) = TextOf(u.scheme, u.userinfo, u.host, u.port, u.path, u.query, u.fragment)
<1>1. IsParts(u.scheme, u.userinfo, u.host, u.port, u.path, u.query, u.fragment)
  <2>1. IsScheme(u.scheme)
    BY UrlAssumption DEF IsScheme, SchemeChars
  <2>2. IsUser(u.userinfo) /\ IsHost(u.host) /\ IsPort(u.port)
    BY UrlAssumption, Zenon DEF IsUser, IsHost, IsPort
  <2>3. IsPath(u.path) /\ IsQuery(u.query) /\ IsQuery(u.fragment)
    BY UrlAssumption, Zenon DEF IsPath, IsQuery
  <2> QED BY <2>1, <2>2, <2>3 DEF IsParts
<1>2. UrlText(u) = TextOf(u.scheme, u.userinfo, u.host, u.port, u.path, u.query, u.fragment)
  BY DEF UrlText, TextOf, UrlFront, UserPart
<1> QED BY <1>1, <1>2

-----------------------------------------------------------------------------
\* While a URL is asked for, made is what Uri::Create made of its text.
UrlCreated == pc = "asked" => url \in Urls /\ made = U!Create(UrlText(url))

LEMMA UrlCreatedInit == Init => UrlCreated
BY DEF Init, ExchangeInit, UrlCreated

LEMMA UrlCreatedNext == UrlCreated /\ [Next]_vars => UrlCreated'
<1> SUFFICES ASSUME UrlCreated, [Next]_vars PROVE UrlCreated'
  OBVIOUS
<1>1. ASSUME NEW u \in Urls, MakeUri(u) PROVE UrlCreated'
  BY <1>1 DEF MakeUri, UrlCreated
<1>2. ASSUME NEW a \in Calls, NEW more \in Extra, SendRequest(a, more) PROVE UrlCreated'
  BY <1>2 DEF SendRequest, UrlCreated
<1>3. ASSUME NEW n \in 1 .. Len(wire) - pos, Read(n) PROVE UrlCreated'
  <2>1. pc' # "asked"
    BY <1>3 DEF Read
  <2> QED BY <2>1 DEF UrlCreated
<1>4. CASE ReadFails
  BY <1>4 DEF ReadFails, UrlCreated
<1>5. ASSUME NEW n \in {-1} \cup 1 .. Len(wire) - pos, ReadBody(n) PROVE UrlCreated'
  <2>1. pc' # "asked"
    BY <1>5 DEF ReadBody
  <2> QED BY <2>1 DEF UrlCreated
<1>6. CASE Handle
  BY <1>6 DEF Handle, UrlCreated
<1>7. ASSUME NEW n \in {-1} \cup 1 .. out.left, Write(n) PROVE UrlCreated'
  BY <1>7 DEF Write, UrlCreated
<1>8. CASE Sent
  <2>1. pc' # "asked"
    BY <1>8 DEF Sent
  <2> QED BY <2>1 DEF UrlCreated
<1>9. CASE UNCHANGED exchangeVars
  BY <1>9 DEF UrlCreated, exchangeVars
<1>10. CASE UNCHANGED vars
  BY <1>9, <1>10 DEF vars
<1> QED BY <1>1, <1>2, <1>3, <1>4, <1>5, <1>6, <1>7, <1>8, <1>9, <1>10 DEF Next, ExchangeNext

LEMMA UrlCreatedTakenApart == UrlCreated => UrlIsTakenApart
<1> SUFFICES ASSUME UrlCreated, pc = "asked" PROVE UrlIsTakenApart
  BY DEF UrlIsTakenApart
<1> DEFINE sc == url.scheme
           ui == url.userinfo
           h == url.host
           po == url.port
           pa == url.path
           qu == url.query
           fr == url.fragment
           pb == IF sc = <<>> THEN <<>> ELSE pa
<1>1. IsParts(sc, ui, h, po, pa, qu, fr) /\ UrlText(url) = TextOf(sc, ui, h, po, pa, qu, fr)
  BY UrlIs DEF UrlCreated
<1>2. made = [is |-> "uri", uri |-> MadeOf(sc, ui, h, po, pa, qu, fr)]
  <2>1. made = U!Create(UrlText(url))
    BY DEF UrlCreated
  <2> HIDE DEF sc, ui, h, po, pa, qu, fr, pb
  <2> QED BY <1>1, <2>1, CreateMakes
<1> PICK u : u = Parts(sc, Kept(ui), h, Number(po), pb, qu, fr)
  OBVIOUS
<1>3. made.is = "uri" /\ made.uri = u
  BY <1>2 DEF MadeOf
<1>4. /\ u.scheme = sc /\ u.userinfo = Kept(ui) /\ u.host = h /\ u.port = Number(po)
      /\ u.path = pb /\ u.query = qu /\ u.fragment = fr
  <2> HIDE DEF sc, ui, h, po, pa, qu, fr, pb
  <2> QED BY PartsAre
<1>5. ASSUME sc # <<>>, Kept(u.userinfo) = u.userinfo
      PROVE  U!Create(U!dump(u)) = [is |-> "uri", uri |-> Redone(u)]
  <2>1. /\ IsScheme(sc) /\ IsUser(ui) /\ IsHost(h) /\ IsPort(po) /\ IsPath(pa) /\ IsQuery(qu)
        /\ IsQuery(fr)
    BY <1>1 DEF IsParts
  <2>2. IsUser(Kept(ui)) /\ Number(po) \in Nat
    BY <2>1, KeptUser, NumberNat DEF IsPort
  <2>3. Kept(Kept(ui)) = Kept(ui)
    BY <1>4, <1>5
  <2>4. pb = pa
    BY <1>5
  <2> HIDE DEF sc, ui, h, po, pa, qu, fr, pb
  <2> QED BY <1>5, <2>1, <2>2, <2>3, <2>4, DumpCreates
<1> QED BY <1>3, <1>4, <1>5 DEF UrlIsTakenApart

\* Of every URL of the grammar, and whatever else the exchange does, Uri::Create
\* finds the parts, and what Uri::dump writes is taken apart in the same way.
THEOREM UrlIsTakenApartHolds == Spec => []UrlIsTakenApart
<1>1. Init => UrlCreated
  BY UrlCreatedInit
<1>2. UrlCreated /\ [Next]_vars => UrlCreated'
  BY UrlCreatedNext
<1>3. UrlCreated => UrlIsTakenApart
  BY UrlCreatedTakenApart
<1> QED BY <1>1, <1>2, <1>3, PTL DEF Spec
=============================================================================
