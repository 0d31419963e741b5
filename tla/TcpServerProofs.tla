-------------------------- MODULE TcpServerProofs --------------------------
(***************************************************************************)
(* Proofs about TcpServer, for any addresses, clients and numbers.         *)
(***************************************************************************)
EXTENDS TcpServer, FiniteSetTheorems, SequenceTheorems, WellFoundedInduction, TLAPS

Files == {Free} \cup {Listening(a) : a \in Addrs} \cup {Connected(c) : c \in Conns}
ConnStates == [step : {"away", "backlog", "recv", "closed"}, num : Nums \cup {Closed}]
Sockets == [num : Nums \cup {Closed}, addr : Addrs]

\* The kernel's files differ.
LEMMA FileKinds ==
  /\ \A a \in Addrs : Listening(a) \in Files /\ Listening(a) # Free
  /\ \A c \in Conns : Connected(c) \in Files /\ Connected(c) # Free
  /\ \A a \in Addrs, c \in Conns : Listening(a) # Connected(c)
  /\ \A a, b \in Addrs : Listening(a) = Listening(b) => a = b
  /\ \A c, d \in Conns : Connected(c) = Connected(d) => c = d
  /\ Free \in Files
<1>1. Free.kind = "free"
  BY DEF Free
<1>2. \A a : Listening(a).kind = "listen" /\ Listening(a).addr = a
  BY DEF Listening
<1>3. \A c : Connected(c).kind = "conn" /\ Connected(c).conn = c
  BY DEF Connected
<1>4. "free" # "listen" /\ "free" # "conn" /\ "listen" # "conn"
  OBVIOUS
<1> QED BY <1>1, <1>2, <1>3, <1>4 DEF Files

\* The kernel hands out a number that is free.
LEMMA LowestIsFree ==
  ASSUME NEW F, FreeNums(F) # {}
  PROVE  Lowest(F) \in Nums /\ F[Lowest(F)] = Free /\ Lowest(F) # Closed
<1>1. FreeNums(F) \subseteq Nat
  BY TcpAssumption DEF FreeNums, Nums
<1>2. PICK n \in FreeNums(F) : \A k \in FreeNums(F) : ~(<<k, n>> \in OpToRel(<, Nat))
  BY <1>1, WFMin, NatLessThanWellFounded
<1>3. \A k \in FreeNums(F) : n <= k
  <2>1. ASSUME NEW k \in FreeNums(F)
        PROVE  k \in Nat /\ n \in Nat /\ ~(k < n)
    <3>1. k \in Nat /\ n \in Nat
      BY <1>1
    <3>2. k < n => <<k, n>> \in {ss \in Nat \X Nat : ss[1] < ss[2]}
      BY <3>1
    <3>3. OpToRel(<, Nat) = {ss \in Nat \X Nat : ss[1] < ss[2]}
      BY Zenon DEF OpToRel
    <3>4. <<k, n>> \notin {ss \in Nat \X Nat : ss[1] < ss[2]}
      BY <1>2, <3>3, Zenon
    <3> QED BY <3>1, <3>2, <3>4
  <2> QED BY <2>1
<1>4. Lowest(F) \in FreeNums(F)
  BY <1>3 DEF Lowest
<1> QED BY <1>4, TcpAssumption DEF FreeNums, Nums, Closed

\* Every number a Socket holds is its own: the sockets S, the clients and the files F.
Own(F, S) ==
  /\ \A i \in DOMAIN S : S[i].num # Closed => F[S[i].num] = Listening(S[i].addr)
  /\ \A c \in Conns : conn[c].num # Closed => F[conn[c].num] = Connected(c)
  /\ \A i, j \in DOMAIN S : S[i].num = S[j].num => i = j \/ S[i].num = Closed

\* Closing sockets keeps the numbers of the others theirs.
LEMMA CloseKeepsOwn ==
  ASSUME NEW F \in [Nums -> Files], NEW S \in Seq(Sockets), Own(F, S),
         conn \in [Conns -> ConnStates],
         NEW is \in SUBSET DOMAIN S
  PROVE  /\ FilesClosed(F, S, is) \in [Nums -> Files]
         /\ SocketClosed(S, is) \in Seq(Sockets) /\ Len(SocketClosed(S, is)) = Len(S)
         /\ Own(FilesClosed(F, S, is), SocketClosed(S, is))
<1> DEFINE G == FilesClosed(F, S, is)  T == SocketClosed(S, is)
<1>1. G \in [Nums -> Files] /\ \A n \in Nums : G[n] = IF \E i \in is : S[i].num = n THEN Free ELSE F[n]
  BY FileKinds DEF FilesClosed
<1>2. /\ DOMAIN S = 1 .. Len(S) /\ Len(S) \in Nat
      /\ \A i \in DOMAIN S : S[i] \in Sockets
  BY LenProperties, ElementOfSeq
<1>3. /\ DOMAIN T = DOMAIN S
      /\ \A i \in DOMAIN S : /\ T[i] \in Sockets /\ T[i].addr = S[i].addr
                             /\ T[i].num = IF i \in is THEN Closed ELSE S[i].num
  BY <1>2 DEF SocketClosed, Sockets
<1>4. T \in Seq(Sockets) /\ Len(T) = Len(S)
  BY <1>2, <1>3 DEF SocketClosed
<1> HIDE DEF G, T
<1>5. \A i \in DOMAIN S : T[i].num # Closed => G[T[i].num] = Listening(T[i].addr)
  BY <1>1, <1>2, <1>3 DEF Own, Sockets
<1>6. \A c \in Conns : conn[c].num # Closed => G[conn[c].num] = Connected(c)
  <2>1. ASSUME NEW c \in Conns, conn[c].num # Closed
        PROVE  conn[c].num \in Nums /\ \A i \in is : S[i].num # conn[c].num
    BY <1>2, <2>1, FileKinds DEF Own, Sockets, ConnStates
  <2> QED BY <1>1, <2>1 DEF Own
<1>7. \A i, j \in DOMAIN T : T[i].num = T[j].num => i = j \/ T[i].num = Closed
  BY <1>3 DEF Own
<1> QED BY <1>1, <1>3, <1>4, <1>5, <1>6, <1>7 DEF Own, G, T

-----------------------------------------------------------------------------
\* What bind() has so far, of the loop over its addresses.
Works == [file : [Nums -> Files], sock : Seq(Sockets), socks : Seq(Nat), fails : Seq(Addrs)]
Bound(w) ==
  /\ w \in Works /\ ToSet(w.socks) \subseteq DOMAIN w.sock
  /\ Own(w.file, w.sock) /\ Len(sock) <= Len(w.sock)
  /\ \A n \in Nums : w.file[n] # file[n] =>
       \E i \in ToSet(w.socks) : i \notin DOMAIN sock /\ w.sock[i].num = n
Serves(w, a) == \E i \in ToSet(w.socks) : w.sock[i].addr = a /\ w.sock[i].num # Closed

\* One address that can be bound.
LEMMA BindOneWorks ==
  ASSUME NEW w \in Works, NEW a \in Addrs, FreeNums(w.file) # {}, ~InUse(w.file, a)
  PROVE  /\ BindOne(w, a) \in Works /\ BindOne(w, a).fails = w.fails
         /\ BindOne(w, a).file = [w.file EXCEPT ![Lowest(w.file)] = Listening(a)]
         /\ BindOne(w, a).sock = Append(w.sock, [num |-> Lowest(w.file), addr |-> a])
         /\ BindOne(w, a).socks = Append(w.socks, Len(w.sock) + 1)
<1> DEFINE k == Lowest(w.file)
           r == [num |-> k, addr |-> a]
<1>1. k \in Nums /\ r \in Sockets /\ Len(w.sock) + 1 \in Nat /\ Listening(a) \in Files
  <2>1. k \in Nums
    BY LowestIsFree
  <2>2. Len(w.sock) + 1 \in Nat
    BY LenProperties DEF Works
  <2> QED BY <2>1, <2>2, FileKinds DEF Sockets
<1>2. /\ [w.file EXCEPT ![k] = Listening(a)] \in [Nums -> Files]
      /\ Append(w.sock, r) \in Seq(Sockets)
      /\ Append(w.socks, Len(w.sock) + 1) \in Seq(Nat)
  <2>1. w.file \in [Nums -> Files] /\ w.sock \in Seq(Sockets) /\ w.socks \in Seq(Nat)
    BY DEF Works
  <2> HIDE DEF k, r
  <2> QED BY <1>1, <2>1, AppendProperties
<1>3. BindOne(w, a) = [w EXCEPT !.file[k] = Listening(a),
                                !.sock = Append(@, r), !.socks = Append(@, Len(w.sock) + 1)]
  BY DEF BindOne
<1> HIDE DEF k, r
<1>4. /\ BindOne(w, a).fails = w.fails
      /\ BindOne(w, a).file = [w.file EXCEPT ![k] = Listening(a)]
      /\ BindOne(w, a).sock = Append(w.sock, r)
      /\ BindOne(w, a).socks = Append(w.socks, Len(w.sock) + 1)
  BY <1>3 DEF Works
<1>5. BindOne(w, a) \in Works
  BY <1>2, <1>3 DEF Works
<1> QED BY <1>4, <1>5 DEF k, r

\* One address that cannot.
LEMMA BindOneFails ==
  ASSUME NEW w \in Works, NEW a \in Addrs, FreeNums(w.file) = {} \/ InUse(w.file, a)
  PROVE  /\ BindOne(w, a) \in Works /\ BindOne(w, a).fails # <<>>
         /\ BindOne(w, a).file = w.file /\ BindOne(w, a).sock = w.sock
         /\ BindOne(w, a).socks = w.socks
<1>1. BindOne(w, a) = [w EXCEPT !.fails = Append(@, a)]
  BY DEF BindOne
<1>2. Append(w.fails, a) \in Seq(Addrs) /\ Append(w.fails, a) # <<>>
  BY AppendProperties DEF Works
<1> QED BY <1>1, <1>2 DEF Works

\* What the loop has done stays true of its next round, and a round without a
\* failure serves its address.
LEMMA BindOneKeeps ==
  ASSUME NEW w, Bound(w), NEW a \in Addrs, file \in [Nums -> Files], sock \in Seq(Sockets),
         conn \in [Conns -> ConnStates]
  PROVE  /\ Bound(BindOne(w, a))
         /\ BindOne(w, a).fails = <<>> => w.fails = <<>> /\ Serves(BindOne(w, a), a)
         /\ \A x \in Addrs : Serves(w, x) => Serves(BindOne(w, a), x)
<1> DEFINE v == BindOne(w, a)
<1>0. w \in Works
  BY DEF Bound
<1>1. CASE FreeNums(w.file) = {} \/ InUse(w.file, a)
  <2>1. v \in Works /\ v.fails # <<>> /\ v.file = w.file /\ v.sock = w.sock /\ v.socks = w.socks
    BY <1>0, <1>1, BindOneFails
  <2> HIDE DEF v
  <2>2. Bound(v)
    BY <2>1 DEF Bound, Own
  <2> QED BY <2>1, <2>2 DEF v, Serves
<1>2. CASE FreeNums(w.file) # {} /\ ~InUse(w.file, a)
  <2> DEFINE k == Lowest(w.file)
             r == [num |-> k, addr |-> a]
             l == Len(w.sock) + 1
  <2>1. /\ v \in Works /\ v.fails = w.fails /\ v.file = [w.file EXCEPT ![k] = Listening(a)]
        /\ v.sock = Append(w.sock, r) /\ v.socks = Append(w.socks, l)
    BY <1>0, <1>2, BindOneWorks
  <2>2. k \in Nums /\ w.file[k] = Free /\ k # Closed
    BY <1>2, LowestIsFree
  <2>3. r.num = k /\ r.addr = a /\ r \in Sockets
    BY <2>2 DEF Sockets
  <2>4. w.file \in [Nums -> Files] /\ w.sock \in Seq(Sockets) /\ w.socks \in Seq(Nat)
    BY <1>0 DEF Works
  <2> HIDE DEF v, k, r
  <2>5. /\ DOMAIN w.sock = 1 .. Len(w.sock) /\ Len(w.sock) \in Nat /\ l \in Nat
        /\ DOMAIN v.sock = 1 .. l /\ Len(v.sock) = l /\ v.sock[l] = r /\ l \notin DOMAIN w.sock
        /\ \A i \in DOMAIN w.sock : v.sock[i] = w.sock[i]
    BY <2>1, <2>3, <2>4, LenProperties, AppendProperties
  <2>6. \A i \in DOMAIN v.sock : i = l \/ i \in DOMAIN w.sock
    BY <2>5
  <2>7. ToSet(v.socks) = ToSet(w.socks) \cup {l}
    <3>1. /\ Append(w.socks, l) \in Seq(Nat) /\ Len(w.socks) \in Nat
          /\ DOMAIN w.socks = 1 .. Len(w.socks)
          /\ Len(Append(w.socks, l)) = Len(w.socks) + 1
          /\ \A i \in 1 .. Len(w.socks) : Append(w.socks, l)[i] = w.socks[i]
          /\ Append(w.socks, l)[Len(w.socks) + 1] = l
      BY <2>4, <2>5, AppendProperties, LenProperties
    <3> DEFINE q == Append(w.socks, l)
    <3>2. DOMAIN q = 1 .. Len(w.socks) + 1
      BY <3>1, LenProperties
    <3>3. \A i \in DOMAIN q : (i \in DOMAIN w.socks /\ q[i] = w.socks[i]) \/ q[i] = l
      BY <3>1, <3>2
    <3>4. /\ \A i \in DOMAIN w.socks : i \in DOMAIN q /\ q[i] = w.socks[i]
          /\ Len(w.socks) + 1 \in DOMAIN q /\ q[Len(w.socks) + 1] = l
      BY <3>1, <3>2
    <3>5. v.socks = q
      BY <2>1
    <3> HIDE DEF q, l
    <3> QED BY <3>3, <3>4, <3>5 DEF ToSet
  <2>8. \A n \in Nums : v.file[n] = IF n = k THEN Listening(a) ELSE w.file[n]
    BY <2>1, <2>2, <2>4
  <2>9. /\ \A i \in DOMAIN w.sock : w.sock[i].num # k /\ w.sock[i].num \in Nums \cup {Closed}
                                    /\ w.sock[i].addr \in Addrs
        /\ \A c \in Conns : conn[c].num # k /\ conn[c].num \in Nums \cup {Closed}
    <3>1. \A i \in DOMAIN w.sock : w.sock[i] \in Sockets
      BY <2>4, <2>5, ElementOfSeq
    <3>2. \A i \in DOMAIN w.sock : w.sock[i].num \in Nums \cup {Closed} /\ w.sock[i].addr \in Addrs
      BY <3>1 DEF Sockets
    <3> QED BY <2>2, <3>2, FileKinds DEF Bound, Own, ConnStates
  <2>10. Own(v.file, v.sock)
    <3>1. \A i \in DOMAIN v.sock : v.sock[i].num # Closed => v.file[v.sock[i].num] = Listening(v.sock[i].addr)
      BY <2>2, <2>3, <2>5, <2>6, <2>8, <2>9 DEF Bound, Own
    <3>2. \A c \in Conns : conn[c].num # Closed => v.file[conn[c].num] = Connected(c)
      BY <2>8, <2>9 DEF Bound, Own
    <3>3. \A i, j \in DOMAIN v.sock : v.sock[i].num = v.sock[j].num => i = j \/ v.sock[i].num = Closed
      BY <2>3, <2>5, <2>6, <2>9 DEF Bound, Own
    <3> QED BY <3>1, <3>2, <3>3 DEF Own
  <2>11. l \notin DOMAIN sock /\ Len(sock) <= Len(v.sock)
    BY <2>5, LenProperties DEF Bound
  <2>12. ASSUME NEW n \in Nums, v.file[n] # file[n]
         PROVE  \E i \in ToSet(v.socks) : i \notin DOMAIN sock /\ v.sock[i].num = n
    <3>1. CASE n = k
      BY <2>3, <2>5, <2>7, <2>11, <3>1
    <3>2. CASE n # k
      BY <2>5, <2>7, <2>8, <2>12, <3>2 DEF Bound
    <3> QED BY <3>1, <3>2
  <2>13. ToSet(v.socks) \subseteq DOMAIN v.sock
    BY <2>5, <2>7 DEF Bound
  <2>14. Bound(v)
    BY <2>1, <2>10, <2>11, <2>12, <2>13 DEF Bound
  <2>15. Serves(v, a)
    BY <2>2, <2>3, <2>5, <2>7 DEF Serves
  <2>16. \A x \in Addrs : Serves(w, x) => Serves(v, x)
    BY <2>5, <2>7 DEF Serves, Bound
  <2> QED BY <2>1, <2>14, <2>15, <2>16 DEF v
<1> QED BY <1>1, <1>2

-----------------------------------------------------------------------------
Loops == [sock : Nat, num : Nums \cup {Closed}, step : {"test", "accept", "ended"}]
Tasks == {AcceptTask(i) : i \in Nat} \cup {CloseTask} \cup {ClientTask(c) : c \in Conns}

\* The server's sockets and the loops refer to sockets that were made; tasks that
\* handle a client name one.
Refers ==
  /\ m_socks \in Seq(Nat) /\ ToSet(m_socks) \subseteq DOMAIN sock
  /\ loop \in Seq(Loops) /\ \A l \in DOMAIN loop : loop[l].sock \in DOMAIN sock
TasksOK ==
  /\ queue \in Seq(Tasks) /\ cur \in Tasks \cup {Idle}
  /\ waiting \in [Nums -> Tasks \cup {Idle}]
FilesOK ==
  /\ file \in [Nums -> Files] /\ sock \in Seq(Sockets)
  /\ conn \in [Conns -> ConnStates]
ServerInv == FilesOK /\ Own(file, sock) /\ Refers /\ TasksOK

LEMMA TaskKinds ==
  /\ \A c \in Conns : ClientTask(c) \in Tasks
  /\ \A i \in Nat : AcceptTask(i) \in Tasks
  /\ CloseTask \in Tasks
  /\ \A k \in Tasks \cup {Idle} : k.task = "client" => k.id \in Conns
<1>1. /\ Idle.task = "idle" /\ CloseTask.task = "close"
      /\ \A i : AcceptTask(i).task = "accept"
      /\ \A c : ClientTask(c).task = "client" /\ ClientTask(c).id = c
  BY DEF Idle, CloseTask, AcceptTask, ClientTask
<1> QED BY <1>1 DEF Tasks

\* The sequence of a finite set of tasks.
LEMMA TasksInOrder ==
  ASSUME NEW S \in SUBSET Tasks, IsFiniteSet(S)
  PROVE  SetToSeq(S) \in Seq(Tasks)
<1>1. Cardinality(S) \in Nat /\ ExistsBijection(1 .. Cardinality(S), S)
  BY FS_CardinalityType
<1>2. \E f \in [1 .. Cardinality(S) -> S] : IsInjective(f)
  BY <1>1 DEF ExistsBijection, Bijection, Injection
<1>3. SetToSeq(S) \in [1 .. Cardinality(S) -> S]
  BY <1>2 DEF SetToSeq
<1>4. SetToSeq(S) \in [1 .. Cardinality(S) -> Tasks]
  BY <1>3
<1> HIDE DEF SetToSeq
<1> QED BY <1>1, <1>4

LEMMA PairParts ==
  ASSUME NEW S, NEW p \in S \X S
  PROVE  p = <<p[1], p[2]>> /\ p[1] \in S /\ p[2] \in S
OBVIOUS

\* What bind() makes of its addresses.
LEMMA BindEachKeeps ==
  ASSUME ServerInv, NEW as \in {<<a>> : a \in Addrs} \cup (Addrs \X Addrs),
         NEW fails \in Seq(Addrs), NEW w0, NEW w, w = BindEach(w0, as),
         w0 = [file |-> file, sock |-> sock, socks |-> m_socks, fails |-> fails]
  PROVE  Bound(w) /\ (w.fails = <<>> => \A a \in ToSet(as) : Serves(w, a))
<1>1. FilesOK /\ Len(sock) \in Nat
  BY LenProperties DEF ServerInv, FilesOK
<1>2. Bound(w0)
  <2>1. w0.file = file /\ w0.sock = sock /\ w0.socks = m_socks /\ w0 \in Works
    BY DEF Works, ServerInv, FilesOK, Refers
  <2> QED BY <1>1, <2>1 DEF Bound, ServerInv, Refers, Own
<1>3. ASSUME NEW a \in Addrs, as = <<a>>
      PROVE  Bound(w) /\ (w.fails = <<>> => \A x \in ToSet(as) : Serves(w, x))
  <2>1. w = BindOne(w0, a) /\ ToSet(as) = {a}
    BY <1>3 DEF BindEach, ToSet
  <2> QED BY <1>1, <1>2, <2>1, BindOneKeeps DEF FilesOK
<1>4. ASSUME NEW a \in Addrs, NEW b \in Addrs, as = <<a, b>>
      PROVE  Bound(w) /\ (w.fails = <<>> => \A x \in ToSet(as) : Serves(w, x))
  <2> DEFINE u == BindOne(w0, a)
  <2>1. w = BindOne(u, b) /\ ToSet(as) = {a, b}
    BY <1>4 DEF BindEach, ToSet
  <2>2. Bound(u) /\ (u.fails = <<>> => Serves(u, a))
    BY <1>1, <1>2, BindOneKeeps DEF FilesOK
  <2> HIDE DEF u
  <2>3. /\ Bound(w) /\ (w.fails = <<>> => u.fails = <<>> /\ Serves(w, b))
        /\ Serves(u, a) => Serves(w, a)
    <3>1. /\ Bound(u) /\ file \in [Nums -> Files] /\ sock \in Seq(Sockets)
          /\ conn \in [Conns -> ConnStates]
      BY <1>1, <2>2 DEF FilesOK
    <3>2. /\ Bound(BindOne(u, b))
          /\ BindOne(u, b).fails = <<>> => u.fails = <<>> /\ Serves(BindOne(u, b), b)
          /\ \A x \in Addrs : Serves(u, x) => Serves(BindOne(u, b), x)
      BY <3>1, BindOneKeeps
    <3> QED BY <2>1, <3>2
  <2> QED BY <2>1, <2>2, <2>3, Zenon
<1>5. (\E a \in Addrs : as = <<a>>) \/ (\E a, b \in Addrs : as = <<a, b>>)
  <2>1. CASE as \in {<<a>> : a \in Addrs}
    BY <2>1, Zenon
  <2>2. CASE as \in Addrs \X Addrs
    <3>1. as = <<as[1], as[2]>> /\ as[1] \in Addrs /\ as[2] \in Addrs
      BY <2>2, PairParts
    <3> QED BY <3>1, Zenon
  <2> QED BY <2>1, <2>2
<1> QED BY <1>3, <1>4, <1>5

-----------------------------------------------------------------------------
LEMMA ServerInit == Init => ServerInv
<1> SUFFICES ASSUME Init PROVE ServerInv
  OBVIOUS
<1>1. FilesOK
  <2>1. file \in [Nums -> Files] /\ sock \in Seq(Sockets)
    BY FileKinds DEF Init
  <2>2. [step |-> "away", num |-> Closed] \in ConnStates
    BY DEF ConnStates
  <2>3. conn \in [Conns -> ConnStates]
    BY <2>2 DEF Init
  <2> QED BY <2>1, <2>3 DEF FilesOK
<1>2. Own(file, sock)
  BY DEF Init, Own
<1>3. Refers /\ TasksOK
  BY DEF Init, Refers, TasksOK, ToSet
<1> QED BY <1>1, <1>2, <1>3 DEF ServerInv

\* What a bind() that has returned left behind, as BindAllOrNothing states it.
BindOutcome ==
  IF ret'.ok
  THEN \A a \in ret'.addrs : \E i \in ToSet(m_socks') :
         sock'[i].addr = a /\ sock'[i].num # Closed
  ELSE m_socks' = <<>> /\ \A a \in Addrs : InUse(file', a) => InUse(file, a)

\* A step of bind(), with what it leaves behind.
LEMMA BindStep ==
  ASSUME ServerInv, BindCall
  PROVE  ServerInv' /\ (ret' # ret => BindOutcome)
<1>1. PICK as \in {<<a>> : a \in Addrs} \cup (Addrs \X Addrs),
           fails \in {<<>>, <<CHOOSE a \in Addrs : TRUE>>} : Bind(as, fails)
  BY DEF BindCall
<1>2. fails \in Seq(Addrs)
  <2>1. Addrs # {}
    BY <1>1
  <2> DEFINE x == CHOOSE a \in Addrs : TRUE
  <2>2. x \in Addrs /\ fails \in {<<>>, <<x>>}
    BY <1>1, <2>1
  <2> HIDE DEF x
  <2>3. <<>> \in Seq(Addrs) /\ <<x>> \in Seq(Addrs)
    BY <2>2
  <2> QED BY <2>2, <2>3
<1> DEFINE w0 == [file |-> file, sock |-> sock, socks |-> m_socks, fails |-> fails]
           w  == BindEach(w0, as)
           kept == AfterFails(w.socks, w.fails)
           gone == {i \in ToSet(w.socks) \ ToSet(kept) : ~HasLoop(i)}
<1>3. Bound(w) /\ (w.fails = <<>> => \A a \in ToSet(as) : Serves(w, a))
  BY <1>2, BindEachKeeps
<1>4. /\ file' = FilesClosed(w.file, w.sock, gone) /\ sock' = SocketClosed(w.sock, gone)
      /\ m_socks' = kept
      /\ ret' = [call |-> calls', ok |-> w.fails = <<>>, addrs |-> ToSet(as)]
      /\ UNCHANGED <<halt, waiting, dirty, queue, cur, m_isStop, loop, conn>>
  BY <1>1 DEF Bind
<1> HIDE DEF w0, w
<1>5. /\ w.file \in [Nums -> Files] /\ w.sock \in Seq(Sockets) /\ w.socks \in Seq(Nat)
      /\ Own(w.file, w.sock) /\ gone \in SUBSET DOMAIN w.sock
      /\ conn \in [Conns -> ConnStates]
  BY <1>3 DEF Bound, Works, ServerInv, FilesOK
<1>6. /\ file' \in [Nums -> Files] /\ sock' \in Seq(Sockets) /\ Len(sock') = Len(w.sock)
      /\ Own(file', sock')
  <2> HIDE DEF gone
  <2> QED BY <1>4, <1>5, CloseKeepsOwn
<1>7. FilesOK' /\ Own(file, sock)'
  BY <1>4, <1>5, <1>6 DEF FilesOK, Own
<1>8. kept \in Seq(Nat) /\ ToSet(kept) \subseteq ToSet(w.socks)
  <2>1. ToSet(<<>>) = {} /\ <<>> \in Seq(Nat)
    BY DEF ToSet
  <2> QED BY <1>5, <2>1 DEF AfterFails
<1> HIDE DEF kept
<1>9. DOMAIN sock \subseteq DOMAIN sock' /\ DOMAIN w.sock = DOMAIN sock'
  <2>1. /\ DOMAIN sock = 1 .. Len(sock) /\ Len(sock) \in Nat
        /\ DOMAIN sock' = 1 .. Len(sock') /\ Len(w.sock) \in Nat
        /\ DOMAIN w.sock = 1 .. Len(w.sock)
    BY <1>5, <1>6, LenProperties DEF ServerInv, FilesOK
  <2>2. Len(sock) <= Len(w.sock)
    BY <1>3 DEF Bound
  <2> QED BY <1>6, <2>1, <2>2
<1>10. Refers'
  <2>1. ToSet(m_socks') \subseteq DOMAIN sock'
    BY <1>3, <1>4, <1>8, <1>9 DEF Bound
  <2> QED BY <1>4, <1>8, <1>9, <2>1 DEF Refers, ServerInv
<1>11. TasksOK'
  BY <1>4 DEF TasksOK, ServerInv
<1>12. BindOutcome
  <2>1. CASE w.fails = <<>>
    <3>1. gone = {} /\ ret'.ok /\ ret'.addrs = ToSet(as) /\ m_socks' = w.socks
      BY <1>4, <2>1 DEF kept, AfterFails
    <3>2. \A i \in DOMAIN w.sock : sock'[i] = w.sock[i]
      BY <1>4, <3>1 DEF SocketClosed
    <3> HIDE DEF gone
    <3>3. \A a \in ToSet(as) : Serves(w, a)
      BY <1>3, <2>1
    <3>4. ToSet(w.socks) \subseteq DOMAIN w.sock
      BY <1>3 DEF Bound
    <3>5. ASSUME NEW a \in ret'.addrs
          PROVE  \E i \in ToSet(m_socks') : sock'[i].addr = a /\ sock'[i].num # Closed
      <4>1. PICK i \in ToSet(w.socks) : w.sock[i].addr = a /\ w.sock[i].num # Closed
        BY <3>1, <3>3, <3>5 DEF Serves
      <4> QED BY <3>1, <3>2, <3>4, <4>1
    <3> QED BY <3>1, <3>5, Zenon DEF BindOutcome
  <2>2. CASE w.fails # <<>>
    <3>1. ~ret'.ok /\ m_socks' = <<>> /\ ToSet(kept) = {}
      <4>1. kept = <<>>
        BY <2>2 DEF kept, AfterFails
      <4>2. ret'.ok = (w.fails = <<>>) /\ m_socks' = kept
        BY <1>4
      <4>3. ToSet(<<>>) = {}
        BY DEF ToSet
      <4> QED BY <2>2, <4>1, <4>2, <4>3
    <3>2. ASSUME NEW a \in Addrs, NEW n \in Nums, file'[n] = Listening(a)
          PROVE  file[n] = Listening(a)
      <4>1. file'[n] = IF \E i \in gone : w.sock[i].num = n THEN Free ELSE w.file[n]
        BY <1>4 DEF FilesClosed
      <4>2. w.file[n] = Listening(a) /\ ~\E i \in gone : w.sock[i].num = n
        <5> HIDE DEF gone
        <5> QED BY <3>2, <4>1, FileKinds
      <4>3. ASSUME w.file[n] # file[n]
            PROVE  FALSE
        <5>1. PICK i \in ToSet(w.socks) : i \notin DOMAIN sock /\ w.sock[i].num = n
          BY <1>3, <4>3 DEF Bound
        <5>2. ~HasLoop(i)
          BY <5>1 DEF HasLoop, ServerInv, Refers
        <5> QED BY <3>1, <4>2, <5>1, <5>2
      <4> QED BY <4>2, <4>3
    <3>3. \A a \in Addrs : InUse(file', a) => InUse(file, a)
      BY <3>2 DEF InUse
    <3> QED BY <3>1, <3>3 DEF BindOutcome
  <2> QED BY <2>1, <2>2
<1> QED BY <1>7, <1>10, <1>11, <1>12 DEF ServerInv

-----------------------------------------------------------------------------
\* start() and stop() queue tasks.
LEMMA StartKeeps == ASSUME ServerInv, Start PROVE ServerInv'
<1> DEFINE n == IF m_isStop THEN Len(m_socks) ELSE 0
           ls == [k \in 1 .. n |-> [sock |-> m_socks[k], num |-> Closed, step |-> "test"]]
           ts == [k \in 1 .. n |-> AcceptTask(Len(loop) + k)]
<1>1. loop' = loop \o ls /\ queue' = queue \o ts /\ UNCHANGED <<file, waiting, cur, sock, m_socks, conn>>
  BY DEF Start, ioVars
<1>2. /\ n \in Nat /\ Len(loop) \in Nat /\ DOMAIN m_socks = 1 .. Len(m_socks) /\ Len(m_socks) \in Nat
      /\ \A k \in 1 .. n : k \in DOMAIN m_socks
      /\ loop \in Seq(Loops) /\ DOMAIN loop = 1 .. Len(loop)
  BY LenProperties DEF ServerInv, Refers
<1> HIDE DEF n
<1>3. \A k \in 1 .. n : m_socks[k] \in Nat /\ m_socks[k] \in DOMAIN sock
  BY <1>2, ElementOfSeq DEF ServerInv, Refers, ToSet
<1>4. ls \in Seq(Loops) /\ Len(ls) = n /\ \A k \in 1 .. n : ls[k].sock \in DOMAIN sock
  <2>1. \A k \in 1 .. n : ls[k] \in Loops /\ ls[k].sock \in DOMAIN sock
    BY <1>3 DEF Loops
  <2>2. ls \in [1 .. n -> Loops]
    BY <2>1
  <2> HIDE DEF ls
  <2> QED BY <1>2, <2>1, <2>2
<1>5. ts \in Seq(Tasks)
  <2>1. \A k \in 1 .. n : Len(loop) + k \in Nat
    BY <1>2
  <2>2. ts \in [1 .. n -> Tasks]
    BY <2>1, TaskKinds
  <2> HIDE DEF ts
  <2> QED BY <1>2, <2>2
<1> HIDE DEF ls, ts
<1>6. queue' \in Seq(Tasks)
  BY <1>1, <1>5, ConcatProperties DEF ServerInv, TasksOK
<1>7. loop' \in Seq(Loops) /\ \A l \in DOMAIN loop' : loop'[l].sock \in DOMAIN sock
  <2>1. /\ loop' \in Seq(Loops) /\ DOMAIN loop' = 1 .. Len(loop) + n
        /\ \A l \in 1 .. Len(loop) + n :
             loop'[l] = IF l <= Len(loop) THEN loop[l] ELSE ls[l - Len(loop)]
    <3>1. ls \in Seq(Loops) /\ Len(ls) = n
      BY <1>4
    <3>2. /\ loop \o ls \in Seq(Loops) /\ Len(loop \o ls) = Len(loop) + Len(ls)
          /\ \A l \in 1 .. Len(loop) + Len(ls) :
               (loop \o ls)[l] = IF l <= Len(loop) THEN loop[l] ELSE ls[l - Len(loop)]
      BY <1>2, <3>1, ConcatProperties
    <3>3. DOMAIN (loop \o ls) = 1 .. Len(loop \o ls)
      BY <3>2, LenProperties
    <3> QED BY <1>1, <3>1, <3>2, <3>3
  <2>2. ASSUME NEW l \in DOMAIN loop'
        PROVE  loop'[l].sock \in DOMAIN sock
    <3>1. CASE l <= Len(loop)
      BY <1>2, <2>1, <3>1 DEF ServerInv, Refers
    <3>2. CASE ~(l <= Len(loop))
      <4>1. l - Len(loop) \in 1 .. n
        BY <1>2, <2>1, <3>2
      <4> QED BY <1>4, <2>1, <3>2, <4>1
    <3> QED BY <3>1, <3>2
  <2> QED BY <2>1, <2>2
<1> QED BY <1>1, <1>6, <1>7 DEF ServerInv, FilesOK, Own, Refers, TasksOK

LEMMA StopKeeps == ASSUME ServerInv, Stop PROVE ServerInv'
<1>1. queue' \in Seq(Tasks)
  BY TaskKinds, AppendProperties DEF Stop, ServerInv, TasksOK
<1>2. UNCHANGED <<file, waiting, cur, sock, m_socks, loop, conn>>
  BY DEF Stop, ioVars
<1> QED BY <1>1, <1>2 DEF ServerInv, FilesOK, Own, Refers, TasksOK

\* The task of stop() closes the server's sockets and queues who waits on them.
LEMMA CloseSocksKeeps == ASSUME ServerInv, CloseSocks PROVE ServerInv'
<1> DEFINE is == ToSet(m_socks)
           ns == Cancelled({sock[i].num : i \in is} \ {Closed})
           S == {waiting[n] : n \in ns}
<1>1. /\ queue' = queue \o SetToSeq(S)
      /\ waiting' = [n \in Nums |-> IF n \in ns THEN Idle ELSE waiting[n]]
      /\ file' = FilesClosed(file, sock, is) /\ sock' = SocketClosed(sock, is)
      /\ m_socks' = <<>> /\ cur' = Idle /\ UNCHANGED <<loop, conn>>
  BY DEF CloseSocks
<1>2. is \in SUBSET DOMAIN sock
  BY DEF ServerInv, Refers
<1>3. \A i \in DOMAIN sock : sock[i].num \in Nums \cup {Closed}
  <2>1. \A i \in DOMAIN sock : sock[i] \in Sockets
    BY LenProperties, ElementOfSeq DEF ServerInv, FilesOK
  <2> QED BY <2>1 DEF Sockets
<1> HIDE DEF is
<1>4. ns \subseteq Nums /\ S \in SUBSET Tasks
  BY <1>2, <1>3 DEF Cancelled, ServerInv, TasksOK
<1>5. IsFiniteSet(S)
  <2>1. IsFiniteSet(Nums)
    BY FS_Interval, TcpAssumption DEF Nums
  <2> HIDE DEF ns
  <2>2. IsFiniteSet(ns)
    BY <1>4, <2>1, FS_Subset
  <2> DEFINE f == [n \in ns |-> waiting[n]]
  <2>3. f \in Surjection(ns, S)
    BY DEF Surjection
  <2> HIDE DEF f, S
  <2> QED BY <2>2, <2>3, FS_Surjection
<1> HIDE DEF ns, S
<1>6. TasksOK'
  <2>1. queue' \in Seq(Tasks)
    BY <1>1, <1>4, <1>5, TasksInOrder, ConcatProperties DEF ServerInv, TasksOK
  <2> QED BY <1>1, <2>1 DEF ServerInv, TasksOK
<1>7. /\ file' \in [Nums -> Files] /\ sock' \in Seq(Sockets) /\ Len(sock') = Len(sock)
      /\ Own(file', sock')
  BY <1>1, <1>2, CloseKeepsOwn DEF ServerInv, FilesOK
<1>8. DOMAIN sock' = DOMAIN sock
  BY <1>7, LenProperties DEF ServerInv, FilesOK
<1>9. Refers'
  BY <1>1, <1>8 DEF ServerInv, Refers, ToSet
<1>10. FilesOK' /\ Own(file, sock)'
  BY <1>1, <1>7 DEF ServerInv, FilesOK, Own
<1> QED BY <1>6, <1>9, <1>10 DEF ServerInv

\* Steps of the thread that only move tasks.
LEMMA TasksMove ==
  ASSUME ServerInv, UNCHANGED <<file, sock, m_socks, loop, conn>>,
         queue' \in Seq(Tasks), cur' \in Tasks \cup {Idle},
         waiting' \in [Nums -> Tasks \cup {Idle}]
  PROVE  ServerInv'
BY DEF ServerInv, FilesOK, Own, Refers, TasksOK

LEMMA DispatchKeeps == ASSUME ServerInv, Dispatch PROVE ServerInv'
<1>1. cur' \in Tasks /\ queue' \in Seq(Tasks)
  BY HeadTailProperties DEF Dispatch, ServerInv, TasksOK
<1> QED BY <1>1, TasksMove DEF Dispatch, ioVars, serverVars, ServerInv, TasksOK

LEMMA PollKeeps == ASSUME ServerInv, NEW n \in Nums, Poll(n) PROVE ServerInv'
<1>1. waiting[n] \in Tasks
  BY DEF Poll, ServerInv, TasksOK
<1>2. queue' \in Seq(Tasks) /\ waiting' \in [Nums -> Tasks \cup {Idle}]
  BY <1>1 DEF Poll, ServerInv, TasksOK
<1> QED BY <1>2, TasksMove DEF Poll, serverVars, ServerInv, TasksOK

LEMMA WaitKeeps ==
  ASSUME ServerInv, NEW n, Wait(n), UNCHANGED <<file, queue, sock, m_socks, loop, conn>>
  PROVE  ServerInv'
<1>1. cur' \in Tasks \cup {Idle} /\ waiting' \in [Nums -> Tasks \cup {Idle}]
  BY DEF Wait, ServerInv, TasksOK
<1> QED BY <1>1, TasksMove DEF ServerInv, TasksOK

-----------------------------------------------------------------------------
\* A step of a loop keeps its socket.
LEMMA LoopMoves ==
  ASSUME ServerInv, DOMAIN sock' = DOMAIN sock, UNCHANGED m_socks, NEW i, NEW s \in {"test", "accept", "ended"},
         NEW n, i \in DOMAIN loop => n \in Nums \cup {Closed},
         \/ loop' = [loop EXCEPT ![i].step = s, ![i].num = n]
         \/ loop' = [loop EXCEPT ![i].step = s]
  PROVE  Refers'
<1>1. /\ loop \in Seq(Loops) /\ DOMAIN loop = 1 .. Len(loop) /\ Len(loop) \in Nat
      /\ \A l \in DOMAIN loop : loop[l] \in Loops
  BY LenProperties, ElementOfSeq DEF ServerInv, Refers
<1>2. DOMAIN loop' = DOMAIN loop
  OBVIOUS
<1>3. ASSUME NEW l \in DOMAIN loop
      PROVE  loop'[l] \in Loops /\ loop'[l].sock = loop[l].sock
  <2>1. CASE l # i
    BY <1>1, <2>1
  <2>2. CASE l = i
    <3>1. loop[l] \in Loops /\ n \in Nums \cup {Closed}
      BY <1>1, <2>2
    <3>2. loop'[l] = [loop[l] EXCEPT !.step = s, !.num = n] \/ loop'[l] = [loop[l] EXCEPT !.step = s]
      BY <2>2
    <3> QED BY <3>1, <3>2 DEF Loops
  <2> QED BY <2>1, <2>2
<1>4. loop' \in Seq(Loops)
  <2>1. loop' \in [1 .. Len(loop) -> Loops]
    BY <1>1, <1>2, <1>3
  <2> QED BY <1>1, <2>1
<1> QED BY <1>2, <1>3, <1>4 DEF ServerInv, Refers

LEMMA LoopTestKeeps == ASSUME ServerInv, LoopTest PROVE ServerInv'
<1> DEFINE i == cur.id
           n == sock[loop[i].sock].num
           is == LastHeld(i)
<1>1. /\ loop' = [loop EXCEPT ![i].step = LoopStep(i), ![i].num = n]
      /\ cur' = IF LoopStep(i) = "ended" THEN Idle ELSE cur
      /\ file' = FilesClosed(file, sock, is) /\ sock' = SocketClosed(sock, is)
      /\ UNCHANGED <<waiting, queue, m_socks, conn>>
  BY DEF LoopTest
<1>2. LoopStep(i) \in {"test", "accept", "ended"}
  BY DEF LoopStep
<1>3. i \in DOMAIN loop => n \in Nums \cup {Closed}
  <2>1. \A k \in DOMAIN sock : sock[k] \in Sockets
    BY LenProperties, ElementOfSeq DEF ServerInv, FilesOK
  <2> QED BY <2>1 DEF ServerInv, Refers, Sockets
<1>4. is \in SUBSET DOMAIN sock
  BY DEF LastHeld
<1> HIDE DEF i, n, is
<1>5. /\ file' \in [Nums -> Files] /\ sock' \in Seq(Sockets) /\ Len(sock') = Len(sock)
      /\ Own(file', sock')
  BY <1>1, <1>4, CloseKeepsOwn DEF ServerInv, FilesOK
<1>6. DOMAIN sock' = DOMAIN sock
  BY <1>5, LenProperties DEF ServerInv, FilesOK
<1>7. Refers'
  BY <1>1, <1>2, <1>3, <1>6, LoopMoves
<1>8. Own(file, sock)'
  BY <1>1, <1>5 DEF Own
<1> QED BY <1>1, <1>5, <1>7, <1>8 DEF ServerInv, FilesOK, TasksOK

LEMMA AcceptFailsKeeps == ASSUME ServerInv, AcceptFails PROVE ServerInv'
<1>1. /\ loop' = [loop EXCEPT ![cur.id].step = "test"]
      /\ UNCHANGED <<file, waiting, queue, cur, sock, m_socks, conn>>
  BY DEF AcceptFails, ioVars, serverVars
<1>2. Refers'
  BY <1>1, LoopMoves
<1> QED BY <1>1, <1>2 DEF ServerInv, FilesOK, Own, TasksOK

\* accept() gives the client a number nobody has.
LEMMA AcceptClientKeeps ==
  ASSUME ServerInv, NEW c \in Conns, AcceptClient(c)
  PROVE  ServerInv'
<1> DEFINE k == Lowest(file)
<1>1. /\ FreeNums(file) # {}
      /\ file' = [file EXCEPT ![k] = Connected(c)]
      /\ conn' = [conn EXCEPT ![c] = [step |-> "recv", num |-> k]]
      /\ queue' = Append(queue, ClientTask(c))
      /\ loop' = [loop EXCEPT ![cur.id].step = "test"]
      /\ UNCHANGED <<waiting, cur, sock, m_socks>>
  BY DEF AcceptClient, serverVars
<1>2. k \in Nums /\ file[k] = Free /\ k # Closed
  BY <1>1, LowestIsFree
<1> HIDE DEF k
<1>3. Refers'
  BY <1>1, LoopMoves
<1>4. TasksOK'
  <2>1. queue' \in Seq(Tasks)
    BY <1>1, TaskKinds, AppendProperties DEF ServerInv, TasksOK
  <2> QED BY <1>1, <2>1 DEF ServerInv, TasksOK
<1>5. FilesOK'
  <2>1. [step |-> "recv", num |-> k] \in ConnStates
    BY <1>2 DEF ConnStates
  <2> QED BY <1>1, <1>2, <2>1, FileKinds DEF ServerInv, FilesOK
<1>6. /\ \A d \in Conns : conn'[d].num = IF d = c THEN k ELSE conn[d].num
      /\ \A n \in Nums : file'[n] = IF n = k THEN Connected(c) ELSE file[n]
      /\ \A d \in Conns : conn[d].num \in Nums \cup {Closed}
      /\ \A i \in DOMAIN sock : sock[i].num \in Nums \cup {Closed} /\ sock[i].addr \in Addrs
  <2>1. \A i \in DOMAIN sock : sock[i] \in Sockets
    BY LenProperties, ElementOfSeq DEF ServerInv, FilesOK
  <2>2. \A d \in Conns : conn[d] \in ConnStates
    BY DEF ServerInv, FilesOK
  <2>3. \A d \in Conns : conn'[d].num = IF d = c THEN k ELSE conn[d].num
    BY <1>1 DEF ServerInv, FilesOK
  <2>4. \A n \in Nums : file'[n] = IF n = k THEN Connected(c) ELSE file[n]
    BY <1>1 DEF ServerInv, FilesOK
  <2> QED BY <2>1, <2>2, <2>3, <2>4 DEF Sockets, ConnStates
<1>7. /\ \A i \in DOMAIN sock : sock[i].num # k
      /\ \A d \in Conns : conn[d].num # k
  BY <1>2, <1>6, FileKinds DEF ServerInv, Own
<1>8. Own(file, sock)'
  BY <1>1, <1>2, <1>6, <1>7 DEF ServerInv, Own
<1> QED BY <1>3, <1>4, <1>5, <1>8 DEF ServerInv

\* Closing a session closes the file of that client alone.
LEMMA ClientDoneKeeps == ASSUME ServerInv, ClientDone PROVE ServerInv'
<1> DEFINE c == cur.id
           k == conn[c].num
<1>1. /\ file' = [file EXCEPT ![k] = Free]
      /\ conn' = [conn EXCEPT ![c] = [step |-> "closed", num |-> Closed]]
      /\ cur' = Idle /\ UNCHANGED <<waiting, queue, sock, m_socks, loop>>
  BY DEF ClientDone, serverVars
<1>2. c \in Conns
  BY TaskKinds DEF ClientDone, Running, ServerInv, TasksOK
<1> HIDE DEF c
<1>3. FilesOK'
  <2>1. [step |-> "closed", num |-> Closed] \in ConnStates
    BY DEF ConnStates
  <2> QED BY <1>1, <1>2, <2>1, FileKinds DEF ServerInv, FilesOK
<1>4. Refers' /\ TasksOK'
  BY <1>1 DEF ServerInv, Refers, TasksOK
<1>5. /\ \A d \in Conns : conn'[d].num = IF d = c THEN Closed ELSE conn[d].num
      /\ \A n \in Nums : file'[n] = IF n = k THEN Free ELSE file[n]
      /\ \A d \in Conns : conn[d].num \in Nums \cup {Closed}
      /\ \A i \in DOMAIN sock : sock[i].num \in Nums \cup {Closed} /\ sock[i].addr \in Addrs
  <2>1. \A i \in DOMAIN sock : sock[i] \in Sockets
    BY LenProperties, ElementOfSeq DEF ServerInv, FilesOK
  <2>2. \A d \in Conns : conn[d] \in ConnStates
    BY DEF ServerInv, FilesOK
  <2>3. \A d \in Conns : conn'[d].num = IF d = c THEN Closed ELSE conn[d].num
    BY <1>1 DEF ServerInv, FilesOK
  <2>4. \A n \in Nums : file'[n] = IF n = k THEN Free ELSE file[n]
    BY <1>1 DEF ServerInv, FilesOK
  <2> QED BY <2>1, <2>2, <2>3, <2>4 DEF Sockets, ConnStates
<1>6. /\ \A i \in DOMAIN sock : sock[i].num # Closed => sock[i].num # k
      /\ \A d \in Conns : conn[d].num # Closed /\ d # c => conn[d].num # k
  BY <1>2, <1>5, FileKinds DEF ServerInv, Own
<1> HIDE DEF k
<1>7. Own(file, sock)'
  BY <1>1, <1>5, <1>6 DEF ServerInv, Own
<1> QED BY <1>3, <1>4, <1>7 DEF ServerInv

LEMMA ConnectKeeps ==
  ASSUME ServerInv, NEW c \in Conns, NEW a \in Addrs, Connect(c, a)
  PROVE  ServerInv'
<1>1. /\ conn' = [conn EXCEPT ![c].step = "backlog"]
      /\ UNCHANGED <<file, waiting, queue, cur, sock, m_socks, loop>>
  BY DEF Connect, serverVars
<1>2. \A d \in Conns : conn[d] \in ConnStates
  BY DEF ServerInv, FilesOK
<1>3. \A d \in Conns : conn'[d] \in ConnStates /\ conn'[d].num = conn[d].num
  <2>1. \A d \in Conns : conn'[d] = IF d = c THEN [conn[d] EXCEPT !.step = "backlog"] ELSE conn[d]
    BY <1>1 DEF ServerInv, FilesOK
  <2> QED BY <1>2, <2>1 DEF ConnStates
<1>4. conn' \in [Conns -> ConnStates]
  BY <1>1, <1>3 DEF ServerInv, FilesOK
<1> QED BY <1>1, <1>3, <1>4 DEF ServerInv, FilesOK, Own, Refers, TasksOK

-----------------------------------------------------------------------------
LEMMA WorkKeeps == ASSUME ServerInv, Work PROVE ServerInv' /\ ret' = ret
<1>1. CASE Dispatch
  BY <1>1, DispatchKeeps DEF Dispatch, callVars
<1>2. CASE CloseSocks
  BY <1>2, CloseSocksKeeps DEF CloseSocks, callVars
<1>3. ASSUME NEW n \in Nums, Poll(n) PROVE ServerInv' /\ ret' = ret
  BY <1>3, PollKeeps DEF Poll, callVars
<1>10. ASSUME NEW n \in Nums, HangUp(n) PROVE ServerInv' /\ ret' = ret
  BY <1>10, TasksMove DEF HangUp, ioVars, serverVars, callVars, ServerInv, TasksOK
<1>4. CASE LoopTest
  BY <1>4, LoopTestKeeps DEF LoopTest, callVars
<1>5. CASE AcceptFails
  BY <1>5, AcceptFailsKeeps DEF AcceptFails, callVars
<1>6. CASE AcceptWaits
  BY <1>6, WaitKeeps DEF AcceptWaits, serverVars, callVars
<1>7. ASSUME NEW c \in Conns, AcceptClient(c) PROVE ServerInv' /\ ret' = ret
  BY <1>7, AcceptClientKeeps DEF AcceptClient, callVars
<1>8. CASE ClientWaits
  BY <1>8, WaitKeeps DEF ClientWaits, serverVars, callVars
<1>9. CASE ClientDone
  BY <1>9, ClientDoneKeeps DEF ClientDone, callVars
<1> QED BY <1>1, <1>2, <1>3, <1>4, <1>5, <1>6, <1>7, <1>8, <1>9, <1>10 DEF Work

\* Every step keeps the invariant, and one that returns from bind() has its outcome.
LEMMA ServerStep ==
  ASSUME ServerInv, [Next]_vars
  PROVE  ServerInv' /\ (ret' # ret => BindOutcome)
<1>1. CASE BindCall
  BY <1>1, BindStep
<1>2. CASE Start
  BY <1>2, StartKeeps DEF Start
<1>3. CASE Stop
  BY <1>3, StopKeeps DEF Stop
<1>4. ASSUME NEW c \in Conns, NEW a \in Addrs, Connect(c, a)
      PROVE  ServerInv' /\ ret' = ret
  BY <1>4, ConnectKeeps DEF Connect, callVars
<1>5. CASE Work
  BY <1>5, WorkKeeps
<1>6. CASE UNCHANGED vars
  BY <1>6 DEF vars, ServerInv, FilesOK, Own, Refers, TasksOK
<1> QED BY <1>1, <1>2, <1>3, <1>4, <1>5, <1>6 DEF Next

\* Every number a Socket object holds is a file of its own, in every order of
\* bind(), stop(), accept() and close(), for any numbers the process may have.
THEOREM NumbersAreOwnHolds == Spec => []NumbersAreOwn
<1>1. ServerInv => NumbersAreOwn
  BY DEF ServerInv, Own, NumbersAreOwn
<1> QED BY <1>1, ServerInit, ServerStep, PTL DEF Spec

\* A bind() serves all its addresses or leaves nothing behind (TcpServer::bind),
\* for one address or two and whatever earlier calls have bound.
THEOREM BindAllOrNothingHolds == Spec => BindAllOrNothing
<1>1. ServerInv /\ [Next]_vars => [ret' # ret => BindOutcome]_vars
  BY ServerStep
<1>2. BindAllOrNothing <=> [][ret' # ret => BindOutcome]_vars
  BY PTL DEF BindAllOrNothing, BindOutcome
<1> QED BY <1>1, <1>2, ServerInit, ServerStep, PTL DEF Spec
=============================================================================
