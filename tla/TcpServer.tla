----------------------------- MODULE TcpServer -----------------------------
(***************************************************************************)
(* fatdog/tcp_server.cpp with the parts of socket.cpp and of               *)
(* http/http_server.cpp it runs: bind, start, stop, the accept loops and   *)
(* the handling of clients, as fibres of one IOManager thread (m_worker    *)
(* and m_acceptWorker are the IOManager that made the server).             *)
(*                                                                         *)
(* Descriptor numbers are reused by the kernel.  A fibre that waits inside *)
(* accept() keeps the number it called with, not the Socket, and a number  *)
(* whose read event has fired once ends the process at the next wait       *)
(* (Hook, IOManager: ContextIsEmpty).                                      *)
(***************************************************************************)
EXTENDS Integers, Sequences, FiniteSets, SequencesExt

CONSTANTS
  Addrs,     \* addresses
  Conns,     \* clients, each of which connects at most once
  MaxNum,    \* the process has the descriptor numbers 1 .. MaxNum
  MaxCalls   \* bound: calls of bind, start and stop

ASSUME TcpAssumption == MaxNum \in Nat /\ MaxCalls \in Nat

Nums == 1 .. MaxNum
Closed == 0    \* m_sock = -1

Free == [kind |-> "free"]
Listening(a) == [kind |-> "listen", addr |-> a]
Connected(c) == [kind |-> "conn", conn |-> c]

VARIABLES
  halt,      \* "no", or the assertion that ended the process
  file,      \* the kernel's files: what each number stands for
  backlog,   \* connections the kernel has completed, per address
  waiting,   \* numbers whose read event is registered, with the fibre
  dirty,     \* numbers whose read event has fired before
  queue,     \* m_fibers of the IOManager
  cur,       \* the task that runs, or Idle
  sock,      \* the Socket objects made by bind(): m_sock and address
  m_socks,   \* sockets of the server, by their place in sock
  m_isStop,
  loop,      \* the fibres of startAccept: socket, number in use, step
  conn,      \* the clients: step and number
  calls,     \* calls made so far
  ret,       \* the last bind(): number of the call, result, addresses
  orphaned   \* a failing bind() dropped a socket that has a running loop

ioVars     == <<file, backlog, waiting, dirty>>
serverVars == <<sock, m_socks, m_isStop>>
callVars   == <<calls, ret, orphaned>>
vars == <<halt, file, backlog, waiting, dirty, queue, cur, sock, m_socks,
          m_isStop, loop, conn, calls, ret, orphaned>>

Idle == [task |-> "idle"]
AcceptTask(i) == [task |-> "accept", id |-> i]
CloseTask     == [task |-> "close"]
ClientTask(c) == [task |-> "client", id |-> c]

Running(task) == halt = "no" /\ cur.task = task
Ended(l) == l.step = "ended"

-----------------------------------------------------------------------------
\* Mutated forms of the definitions below, one plausible slip each.
MutSocketClosed(S, is) == S
MutAfterFails(socks, fails) == socks

-----------------------------------------------------------------------------
\* The lowest free number, as the kernel hands them out.
FreeNums(F) == {n \in Nums : F[n] = Free}
Lowest(F) == CHOOSE n \in FreeNums(F) : \A k \in FreeNums(F) : n <= k

InUse(F, a) == \E n \in Nums : F[n] = Listening(a)

\* Socket::close of the sockets is: m_sock becomes -1 and the file goes.
SocketClosed(S, is) == [i \in DOMAIN S |-> IF i \in is THEN [S[i] EXCEPT !.num = Closed]
                                                         ELSE S[i]]

FilesClosed(F, S, is) ==
  [n \in Nums |-> IF \E i \in is : S[i].num = n THEN Free ELSE F[n]]

\* Connections that nobody has accepted go with the listening file.
BacklogOf(F) == [a \in Addrs |-> IF InUse(F, a) THEN backlog[a] ELSE {}]

\* The wait of the fibre on a number ends with the number: cancelAll in the
\* task of stop() and in close() queues it.
Cancelled(ns) == {n \in ns : waiting[n] # Idle}

\* Socket::bind and Socket::listen for one address of bind(): w holds the files,
\* sockets, m_socks and fails so far.  A socket that fails is destroyed at once.
BindOne(w, a) ==
  IF FreeNums(w.file) = {} \/ InUse(w.file, a)
  THEN [w EXCEPT !.fails = Append(@, a)]
  ELSE [w EXCEPT !.file[Lowest(w.file)] = Listening(a),
                 !.sock = Append(@, [num |-> Lowest(w.file), addr |-> a]),
                 !.socks = Append(@, Len(w.sock) + 1)]

\* The loop of bind() over its vector, of one address or of two.
BindEach(w, as) ==
  IF Len(as) = 1 THEN BindOne(w, as[1]) ELSE BindOne(BindOne(w, as[1]), as[2])

\* m_socks when all addresses have been tried.
AfterFails(socks, fails) == IF fails # <<>> THEN <<>> ELSE socks

\* A loop that has not ended holds its socket.
HasLoop(i) == \E l \in DOMAIN loop : loop[l].sock = i /\ ~Ended(loop[l])

-----------------------------------------------------------------------------
Init ==
  /\ halt = "no" /\ queue = <<>> /\ cur = Idle
  /\ file = [n \in Nums |-> Free] /\ backlog = [a \in Addrs |-> {}]
  /\ waiting = [n \in Nums |-> Idle] /\ dirty = {}
  /\ sock = <<>> /\ m_socks = <<>> /\ m_isStop = TRUE
  /\ loop = <<>> /\ conn = [c \in Conns |-> [step |-> "away", num |-> Closed]]
  /\ calls = 0 /\ ret = [call |-> 0, ok |-> TRUE, addrs |-> {}]
  /\ orphaned = FALSE

\* The owner of the server calls it from a fibre of the same thread.
Calls ==
  /\ halt = "no" /\ cur = Idle
  /\ calls < MaxCalls
  /\ calls' = calls + 1

\* TcpServer::bind with the addresses as and a vector that holds the failures
\* fails already: any failure drops every socket of the server, those of earlier
\* calls included; the ones nobody else holds are closed by their destructor.
Bind(as, fails) ==
  LET w0 == [file |-> file, sock |-> sock, socks |-> m_socks, fails |-> fails]
      w  == BindEach(w0, as)
      kept == AfterFails(w.socks, w.fails)
      gone == {i \in ToSet(w.socks) \ ToSet(kept) : ~HasLoop(i)}
  IN /\ Calls
     /\ file' = FilesClosed(w.file, w.sock, gone)
     /\ backlog' = BacklogOf(file')
     /\ sock' = SocketClosed(w.sock, gone)
     /\ m_socks' = kept
     /\ ret' = [call |-> calls', ok |-> w.fails = <<>>, addrs |-> ToSet(as)]
     /\ orphaned' = (orphaned \/ \E i \in ToSet(w.socks) \ ToSet(kept) : HasLoop(i))
     /\ UNCHANGED <<halt, waiting, dirty, queue, cur, m_isStop, loop, conn>>

\* TcpServer::start.
Start ==
  /\ Calls
  /\ m_isStop' = FALSE
  /\ LET n == IF m_isStop THEN Len(m_socks) ELSE 0
     IN /\ loop' = loop \o [k \in 1 .. n |->
                              [sock |-> m_socks[k], num |-> Closed, step |-> "test"]]
        /\ queue' = queue \o [k \in 1 .. n |-> AcceptTask(Len(loop) + k)]
  /\ UNCHANGED <<halt, ioVars, cur, sock, m_socks, conn, ret, orphaned>>

\* TcpServer::stop: the sockets are closed by a task of their own.
Stop ==
  /\ Calls
  /\ m_isStop' = TRUE
  /\ queue' = Append(queue, CloseTask)
  /\ UNCHANGED <<halt, ioVars, cur, sock, m_socks, loop, conn, ret, orphaned>>

\* The task of stop().
CloseSocks ==
  LET is == ToSet(m_socks)
      ns == Cancelled({sock[i].num : i \in is} \ {Closed})
  IN /\ Running("close")
     /\ queue' = queue \o SetToSeq({waiting[n] : n \in ns})
     /\ waiting' = [n \in Nums |-> IF n \in ns THEN Idle ELSE waiting[n]]
     /\ dirty' = dirty \cup ns
     /\ file' = FilesClosed(file, sock, is)
     /\ backlog' = BacklogOf(file')
     /\ sock' = SocketClosed(sock, is)
     /\ m_socks' = <<>>
     /\ cur' = Idle
     /\ UNCHANGED <<halt, m_isStop, loop, conn, callVars>>

-----------------------------------------------------------------------------
\* Scheduler::run takes the next task.
Dispatch ==
  /\ halt = "no" /\ cur = Idle /\ queue # <<>>
  /\ cur' = Head(queue) /\ queue' = Tail(queue)
  /\ UNCHANGED <<halt, ioVars, serverVars, loop, conn, callVars>>

\* do_io registers the read event of n for the running task and yields.
Wait(n) ==
  IF n \in dirty \/ waiting[n] # Idle
  THEN /\ halt' = "addEvent"
       /\ UNCHANGED <<waiting, cur>>
  ELSE /\ waiting' = [waiting EXCEPT ![n] = cur]
       /\ cur' = Idle
       /\ UNCHANGED halt

\* IOManager::idle handles an event of n: a connection, a request, or the
\* receive time-out of a client, which is always armed.
Ready(n) ==
  CASE file[n].kind = "listen" -> backlog[file[n].addr] # {}
    [] file[n].kind = "conn"   -> TRUE
    [] OTHER                   -> FALSE

Poll(n) ==
  /\ halt = "no" /\ cur = Idle /\ queue = <<>>
  /\ waiting[n] # Idle /\ Ready(n)
  /\ queue' = <<waiting[n]>>
  /\ waiting' = [waiting EXCEPT ![n] = Idle]
  /\ dirty' = dirty \cup {n}
  /\ UNCHANGED <<halt, file, backlog, cur, serverVars, loop, conn, callVars>>

\* A client that resets its connection: the error stands for both events, and
\* triggerEvent asserts that the write event, which nobody registered, is there.
HangUp(n) ==
  /\ halt = "no" /\ cur = Idle /\ queue = <<>>
  /\ waiting[n] # Idle /\ file[n].kind = "conn"
  /\ halt' = "triggerEvent"
  /\ UNCHANGED <<ioVars, queue, cur, serverVars, loop, conn, callVars>>

-----------------------------------------------------------------------------
\* startAccept, the loop's test, and the number of the Socket for accept().
LoopStep(i) == IF m_isStop THEN "ended" ELSE "accept"

\* The sockets that go with the loop i when it ends: its own, if neither the server
\* nor another loop holds it.
LastHeld(i) ==
  {k \in DOMAIN sock \ ToSet(m_socks) :
     /\ LoopStep(i) = "ended" /\ loop[i].sock = k
     /\ \A l \in DOMAIN loop \ {i} : loop[l].sock = k => Ended(loop[l])}

LoopTest ==
  LET i == cur.id IN
  /\ Running("accept") /\ loop[i].step = "test"
  /\ loop' = [loop EXCEPT ![i].step = LoopStep(i), ![i].num = sock[loop[i].sock].num]
  /\ cur' = IF LoopStep(i) = "ended" THEN Idle ELSE cur
  /\ file' = FilesClosed(file, sock, LastHeld(i))
  /\ backlog' = BacklogOf(file')
  /\ sock' = SocketClosed(sock, LastHeld(i))
  /\ UNCHANGED <<halt, waiting, dirty, queue, m_socks, m_isStop, conn, callVars>>

Accepting(n) ==
  /\ Running("accept") /\ loop[cur.id].step = "accept"
  /\ n = loop[cur.id].num

\* Socket::accept takes a connection and its handler is scheduled.
AcceptClient(c) ==
  LET n == loop[cur.id].num
      k == Lowest(file)
  IN /\ Accepting(n) /\ n # Closed
     /\ file[n].kind = "listen" /\ c \in backlog[file[n].addr]
     /\ FreeNums(file) # {}
     /\ file' = [file EXCEPT ![k] = Connected(c)]
     /\ backlog' = [backlog EXCEPT ![file[n].addr] = @ \ {c}]
     /\ conn' = [conn EXCEPT ![c] = [step |-> "recv", num |-> k]]
     /\ queue' = Append(queue, ClientTask(c))
     /\ loop' = [loop EXCEPT ![cur.id].step = "test"]
     /\ UNCHANGED <<halt, waiting, dirty, cur, serverVars, callVars>>

\* accept() fails: the number is closed or stands for a connection by now, or no
\* number is left.  The loop tries again at once.
AcceptFails ==
  LET n == loop[cur.id].num
      NoAccept == n = Closed \/ (n # Closed /\ file[n].kind # "listen")
      NoNumber == ~NoAccept /\ FreeNums(file) = {} /\ backlog[file[n].addr] # {}
  IN /\ Accepting(n)
     /\ NoAccept \/ NoNumber
     /\ loop' = [loop EXCEPT ![cur.id].step = "test"]
     /\ UNCHANGED <<halt, ioVars, queue, cur, serverVars, conn, callVars>>

\* accept() would block.
AcceptWaits ==
  LET n == loop[cur.id].num IN
  /\ Accepting(n) /\ n # Closed
  /\ file[n].kind = "listen" /\ backlog[file[n].addr] = {}
  /\ Wait(n)
  /\ UNCHANGED <<file, backlog, dirty, queue, serverVars, loop, conn, callVars>>

-----------------------------------------------------------------------------
\* HttpServer::handleClient in recvRequest(): there is nothing to read yet.
ClientWaits ==
  LET c == cur.id IN
  /\ Running("client") /\ conn[c].step = "recv"
  /\ Wait(conn[c].num)
  /\ UNCHANGED <<file, backlog, dirty, queue, serverVars, loop, conn, callVars>>

\* recvRequest() has a request, which is answered, or nullptr.  Both leave the
\* loop, for every request says isClose(), and close the session.
ClientDone ==
  LET c == cur.id IN
  /\ Running("client") /\ conn[c].step = "recv"
  /\ file' = [file EXCEPT ![conn[c].num] = Free]
  /\ conn' = [conn EXCEPT ![c] = [step |-> "closed", num |-> Closed]]
  /\ cur' = Idle
  /\ UNCHANGED <<halt, backlog, waiting, dirty, queue, serverVars, loop, callVars>>

\* A client connects to a listening address.
Connect(c, a) ==
  /\ halt = "no" /\ conn[c].step = "away" /\ InUse(file, a)
  /\ conn' = [conn EXCEPT ![c].step = "backlog"]
  /\ backlog' = [backlog EXCEPT ![a] = @ \cup {c}]
  /\ UNCHANGED <<halt, file, waiting, dirty, queue, cur, serverVars, loop, callVars>>

BindCall == \E as \in {<<a>> : a \in Addrs} \cup (Addrs \X Addrs) :
              \E fails \in {<<>>, <<CHOOSE a \in Addrs : TRUE>>} : Bind(as, fails)

\* What the thread does by itself.
Work ==
  \/ Dispatch \/ CloseSocks
  \/ \E n \in Nums : Poll(n) \/ HangUp(n)
  \/ LoopTest \/ AcceptFails \/ AcceptWaits
  \/ \E c \in Conns : AcceptClient(c)
  \/ ClientWaits \/ ClientDone

Next ==
  \/ BindCall \/ Start \/ Stop
  \/ \E c \in Conns, a \in Addrs : Connect(c, a)
  \/ Work

\* A thread that has something to do does it; clients and the owner need not act.
Spec == Init /\ [][Next]_vars /\ WF_vars(Work)

-----------------------------------------------------------------------------
\* Every number a Socket object holds is a file of its own: closing, accepting
\* and binding in any order never leave two objects with one number or an object
\* with a number the kernel has given to another file (Socket::close, accept).
NumbersAreOwn ==
  /\ \A i \in DOMAIN sock : sock[i].num # Closed => file[sock[i].num] = Listening(sock[i].addr)
  /\ \A c \in Conns : conn[c].num # Closed => file[conn[c].num] = Connected(c)
  /\ \A i, j \in DOMAIN sock : sock[i].num = sock[j].num => i = j \/ sock[i].num = Closed

\* A bind() that reports success serves all its addresses; one that reports
\* failure leaves nothing behind: the server has no sockets, and of its addresses
\* only those listen that did before (TcpServer::bind clears m_socks when any
\* address failed, and the destructors close what was opened).
BindAllOrNothing ==
  [][ ret' # ret =>
        IF ret'.ok
        THEN \A a \in ret'.addrs : \E i \in ToSet(m_socks') :
               sock'[i].addr = a /\ sock'[i].num # Closed
        ELSE m_socks' = <<>> /\ \A a \in Addrs : InUse(file', a) => InUse(file, a)
    ]_vars

=============================================================================
