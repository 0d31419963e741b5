-------------------------------- MODULE Hook --------------------------------
(***************************************************************************)
(* The hooked system calls of fatdog/hook.cpp and the descriptor table of  *)
(* fatdog/fd_manager.cpp, as the fibres of one thread use them.  A call    *)
(* that would block registers an event, perhaps arms a condition timer,    *)
(* and yields; what it read before the yield (the number, the time-out) is *)
(* used after it, when the number may belong to another file.              *)
(*                                                                         *)
(* The loop is IOManager's, cut down to what a waiting call meets: a FIFO  *)
(* queue, and an idle phase that first collects timers and then handles    *)
(* events.  Triggered contexts keep their fibre (IOManager, ContextIsEmpty)*)
(* so a second wait for the same event of a number ends the process.       *)
(***************************************************************************)
EXTENDS Integers, Sequences, FiniteSets

CONSTANTS
  Fibers,      \* the fibres, all queued at the start
  Nums,        \* descriptor numbers
  None,        \* nullptr
  Ops,         \* the calls the fibres make
  MaxCalls     \* bound: calls all fibres make together

ASSUME HookAssumption ==
  /\ IsFiniteSet(Fibers) /\ IsFiniteSet(Nums)
  /\ None \notin Fibers
  /\ MaxCalls \in Nat

Evs == {"READ", "WRITE"}
IoOps == {"read", "write", "accept"}
EventOf(op) == IF op \in {"read", "accept"} THEN "READ" ELSE "WRITE"

VARIABLES
  halt,      \* "no", "blocked" (the thread sits in a system call) or the
             \* line of the assertion that ended the process
  hook,      \* t_hook_enable
  \* The kernel.
  file,      \* the open file of each number, or NoFile
  opened,    \* files opened so far
  rawClosed, \* numbers closed while the hook was off
  \* FdManager.
  m_datas,   \* the FdCtx of each number, or NoCtx
  \* IOManager and its timers.
  phase,     \* "run", "timers" or "events"
  queue,     \* m_fibers
  cur,       \* the fibre that runs, or None
  events,    \* registered events
  ctx,       \* fibre and file an EventContext was filled for
  armed,     \* condition timers, named by fibre and call
  sleepers,  \* fibres with an armed sleep timer
  \* The calls.
  call,      \* the suspended call of each fibre, or NoCall
  calls,     \* calls made so far
  ret        \* the call that returned last, if a property asks for it

kernelVars == <<file, opened, rawClosed>>
loopVars   == <<phase, queue, cur>>
eventVars  == <<events, ctx>>
timerVars  == <<armed, sleepers>>
vars == <<halt, hook, file, opened, rawClosed, m_datas, phase, queue, cur, events, ctx,
          armed, sleepers, call, calls, ret>>

NoFile == [id |-> 0]
NoCtx  == [id |-> 0]
NoCall == [id |-> 0]
NoRet  == [op |-> "none"]
NoWait == [fiber |-> None, id |-> 0]

\* A file as the kernel opens it: whether it is a socket, O_NONBLOCK, the state
\* of its connection ("taken" when the error of a refused one has been told),
\* the flag its user asked for, and whether its O_NONBLOCK is not the library's.
OpenFile(sock) ==
  [id |-> opened + 1, sock |-> sock, nonblock |-> FALSE,
   conn |-> "no", user |-> FALSE, raw |-> TRUE]

\* A call in progress.
Call(op, n, timed) ==
  [id |-> calls + 1, op |-> op, num |-> n, ev |-> EventOf(op),
   file |-> file[n].id, timed |-> timed, cancelled |-> FALSE]

FiberItem(f)    == [kind |-> "fiber", fiber |-> f, id |-> 0]
WakeItem(f)     == [kind |-> "wake", fiber |-> f, id |-> 0]
TimerItem(f, i) == [kind |-> "timer", fiber |-> f, id |-> i]

-----------------------------------------------------------------------------
\* Mutated forms of the definitions below, one plausible slip each.
MutWithoutTimer(A, f) == A
MutDropped(n) == [m_datas EXCEPT ![n] = m_datas[n]]
MutNonblockAfterSetfl(n, b) == b
MutFlagOf(n) == file[n].nonblock
MutCancelled(n) == {}
MutCancelledBoth(n) == {n} \X Evs
MutTimerFires(t) == FALSE
MutConnectResult(n) == IF file[n] = NoFile THEN "error" ELSE "ok"

-----------------------------------------------------------------------------
\* FdCtx::init of the file f under a new number: a socket becomes nonblocking.
NewCtx(f) ==
  [id |-> f.id, sock |-> f.sock, user |-> FALSE, sys |-> f.sock,
   timed |-> [e \in Evs |-> FALSE]]

\* FdManager::get(fd, true): a context that is still there is kept as it is,
\* and then the kernel's flag is left alone too.
Created(n, f) == IF m_datas[n] = NoCtx THEN [m_datas EXCEPT ![n] = NewCtx(f)]
                                       ELSE m_datas
FlagAfterGet(n, f) == f.nonblock \/ (m_datas[n] = NoCtx /\ f.sock)

\* FdManager::del.
Dropped(n) == [m_datas EXCEPT ![n] = NoCtx]

\* The context is absent, or not one of a socket: the call goes through.
IsSocketCtx(n) == m_datas[n] # NoCtx /\ m_datas[n].sock

\* do_io and connect call the original function and nothing else.
Plain(n) == ~(hook /\ IsSocketCtx(n) /\ ~m_datas[n].user)

\* What the original function may answer, EINTR retried, as the peer has it:
\* "done" stands for a transfer and for any error but EAGAIN and EBADF.
Answers(n) ==
  IF file[n] = NoFile THEN {"ebadf"}
  ELSE {"done"} \cup (IF ~file[n].sock \/ file[n].conn \in {"refused", "taken"} THEN {}
                       ELSE IF file[n].nonblock THEN {"again"} ELSE {"blocked"})

\* timer->cancel() by f: the timers A without its own.
WithoutTimer(A, f) == {t \in A : t[1] # f}

\* What ret remembers of a call on n: its name, what it reported, the file it
\* was made for and the file it met in the end.
Returned(op, res, n, id, refused) ==
  [op |-> op, res |-> res, num |-> n, id |-> id, met |-> file[n],
   refused |-> refused]

-----------------------------------------------------------------------------
Init ==
  /\ halt = "no" /\ hook = TRUE
  /\ file = [n \in Nums |-> NoFile] /\ opened = 0 /\ rawClosed = {}
  /\ m_datas = [n \in Nums |-> NoCtx]
  /\ phase = "run" /\ cur = None
  /\ queue \in {q \in [1 .. Cardinality(Fibers) -> {FiberItem(f) : f \in Fibers}] :
                  \A i, j \in DOMAIN q : q[i] = q[j] => i = j}
  /\ events = {} /\ ctx = [p \in Nums \X Evs |-> NoWait]
  /\ armed = {} /\ sleepers = {}
  /\ call = [f \in Fibers |-> NoCall]
  /\ calls = 0 /\ ret = NoRet

\* The running fibre makes another call.
Makes(op) ==
  /\ halt = "no" /\ cur # None /\ call[cur] = NoCall
  /\ op \in Ops
  /\ calls < MaxCalls
  /\ calls' = calls + 1

\* A call that returns at once and touches the descriptor table or the kernel
\* only.
ReturnsAtOnce ==
  /\ ret' = NoRet
  /\ UNCHANGED <<halt, loopVars, eventVars, timerVars, call>>

\* set_hook_enable(flag), for the thread.
SetHookEnable ==
  /\ Makes("hook")
  /\ hook' = ~hook
  /\ UNCHANGED <<halt, kernelVars, m_datas, loopVars, eventVars, timerVars,
                 call, ret>>

\* The kernel opens a file under the number n and hands it to get(fd, true).
OpenWithCtx(n, f) ==
  /\ opened' = opened + 1
  /\ file' = [file EXCEPT ![n] = [f EXCEPT !.nonblock = FlagAfterGet(n, f), !.raw = FALSE]]
  /\ m_datas' = Created(n, f)
  /\ UNCHANGED rawClosed

\* The kernel opens a file and nobody creates a context for it.
OpenBare(n, f) ==
  /\ opened' = opened + 1
  /\ file' = [file EXCEPT ![n] = f]
  /\ UNCHANGED <<rawClosed, m_datas>>

\* socket(), and open() of a file that is no socket, which is not hooked.
Socket(n) ==
  /\ Makes("socket")
  /\ file[n] = NoFile
  /\ IF hook THEN OpenWithCtx(n, OpenFile(TRUE)) ELSE OpenBare(n, OpenFile(TRUE))
  /\ UNCHANGED hook
  /\ ReturnsAtOnce

OpenOther(n) ==
  /\ Makes("open")
  /\ file[n] = NoFile
  /\ OpenBare(n, OpenFile(FALSE))
  /\ UNCHANGED hook
  /\ ReturnsAtOnce

\* setsockopt(SO_RCVTIMEO or SO_SNDTIMEO) with a finite time.
SetTimeout(n, ev) ==
  /\ Makes("timeout")
  /\ file[n] # NoFile
  /\ m_datas' = IF hook /\ m_datas[n] # NoCtx
                THEN [m_datas EXCEPT ![n].timed[ev] = TRUE] ELSE m_datas
  /\ UNCHANGED <<hook, kernelVars>>
  /\ ReturnsAtOnce

\* The kernel's flag after fcntl(F_SETFL): the system's choice for a socket
\* with a context, else the user's.
NonblockAfterSetfl(n, b) == IF IsSocketCtx(n) THEN m_datas[n].sys ELSE b

\* fcntl(F_SETFL) with or without O_NONBLOCK.
SetFlag(n, b) ==
  /\ Makes("setfl")
  /\ file[n] # NoFile
  /\ m_datas' = IF IsSocketCtx(n) THEN [m_datas EXCEPT ![n].user = b] ELSE m_datas
  /\ file' = [file EXCEPT ![n].user = b, ![n].nonblock = NonblockAfterSetfl(n, b)]
  /\ UNCHANGED <<hook, opened, rawClosed>>
  /\ ReturnsAtOnce

\* What fcntl(F_GETFL) tells.
FlagOf(n) == IF IsSocketCtx(n) THEN m_datas[n].user ELSE file[n].nonblock

GetFlag(n) ==
  /\ Makes("getfl")
  /\ file[n] # NoFile
  /\ ret' = Returned("getfl", FlagOf(n), n, file[n].id, FALSE)
  /\ UNCHANGED <<halt, hook, kernelVars, m_datas, loopVars, eventVars,
                 timerVars, call>>

\* ioctl(FIONBIO): the user's value reaches the kernel as it is.
Ioctl(n, b) ==
  /\ Makes("ioctl")
  /\ file[n] # NoFile
  /\ m_datas' = IF IsSocketCtx(n) THEN [m_datas EXCEPT ![n].user = b] ELSE m_datas
  /\ file' = [file EXCEPT ![n].user = b, ![n].nonblock = b,
                          ![n].raw = @ \/ ~b]
  /\ UNCHANGED <<hook, opened, rawClosed>>
  /\ ReturnsAtOnce

\* cancelAll(fd) of close(): the registered events it triggers.  It does
\* nothing when epoll no longer holds the file.
Cancelled(n) ==
  LET on == {p \in events : p[1] = n}
  IN  IF \A p \in on : ctx[p].id = file[n].id THEN on ELSE {}

\* The waiting fibres of the pairs S, READ first.
Woken(S, n) ==
  (IF <<n, "READ">> \in S THEN <<FiberItem(ctx[<<n, "READ">>].fiber)>> ELSE <<>>)
    \o (IF <<n, "WRITE">> \in S THEN <<FiberItem(ctx[<<n, "WRITE">>].fiber)>> ELSE <<>>)

\* close().
Close(n) ==
  /\ Makes("close")
  /\ file[n] # NoFile
  /\ IF hook /\ m_datas[n] # NoCtx
     THEN /\ events' = events \ Cancelled(n)
          /\ queue' = queue \o Woken(Cancelled(n), n)
          /\ m_datas' = Dropped(n)
     ELSE UNCHANGED <<events, queue, m_datas>>
  /\ rawClosed' = IF hook THEN rawClosed ELSE rawClosed \cup {n}
  /\ file' = [file EXCEPT ![n] = NoFile]
  /\ ret' = NoRet
  /\ UNCHANGED <<halt, hook, opened, phase, cur, ctx, timerVars, call>>

-----------------------------------------------------------------------------
\* The running fibre goes on after the call c of it.
Finishes(c, res, refused) ==
  /\ ret' = IF c.op = "connect" THEN Returned(c.op, res, c.num, c.file, refused)
                                ELSE NoRet
  /\ call' = [call EXCEPT ![cur] = NoCall]

\* accept(), which creates the context whether the hook is on or not; it may
\* fail, and does on a socket that does not listen.
Accepted(c) ==
  \/ UNCHANGED <<kernelVars, m_datas>>
  \/ /\ file[c.num].sock /\ file[c.num].conn = "no"
     /\ \E n \in Nums : file[n] = NoFile /\ OpenWithCtx(n, OpenFile(TRUE))

\* The error of a refused connection is told once, to the call that asks first.
ErrorTold(n) ==
  IF file[n] # NoFile /\ file[n].conn = "refused"
  THEN [file EXCEPT ![n].conn = "taken"] ELSE file

\* The original function did its work, or failed.
Transfers(c) ==
  /\ IF c.op = "accept"
     THEN Accepted(c)
     ELSE file' = ErrorTold(c.num) /\ UNCHANGED <<opened, rawClosed, m_datas>>
  /\ Finishes(c, "done", FALSE)
  /\ UNCHANGED <<halt, loopVars, eventVars, timerVars>>

\* What connect() reports in the end, from getsockopt(SO_ERROR).
ConnectResult(n) ==
  IF file[n] = NoFile \/ file[n].conn = "refused" THEN "error" ELSE "ok"

\* addConditionTimer, addEvent, YieldToHold; ok is the answer of epoll_ctl.
\* When it refuses, do_io returns and connect() asks for the result.
Waits(c, ok) ==
  LET p == <<c.num, c.ev>>
      timers == IF c.timed THEN armed \cup {<<cur, c.id>>} ELSE armed
  IN
  /\ \/ /\ p \in events
        /\ halt' = "iomanager.cpp:111"
        /\ armed' = timers
        /\ UNCHANGED <<loopVars, eventVars, call, ret>>
     \/ /\ p \notin events /\ ~ok
        /\ armed' = WithoutTimer(timers, cur)
        /\ Finishes(c, IF c.op = "connect" THEN ConnectResult(c.num) ELSE "again", TRUE)
        /\ UNCHANGED <<halt, loopVars, eventVars>>
     \/ /\ p \notin events /\ ok /\ ctx[p] # NoWait
        /\ halt' = "iomanager.cpp:131"
        /\ armed' = timers
        /\ UNCHANGED <<loopVars, eventVars, call, ret>>
     \/ /\ p \notin events /\ ok /\ ctx[p] = NoWait
        /\ armed' = timers
        /\ events' = events \cup {p}
        /\ ctx' = [ctx EXCEPT ![p] = [fiber |-> cur, id |-> file[c.num].id]]
        /\ call' = [call EXCEPT ![cur] = c]
        /\ cur' = None
        /\ UNCHANGED <<halt, phase, queue, ret>>
  /\ UNCHANGED <<m_datas, sleepers>>

\* One evaluation of the original function for the call c of the running
\* fibre, and what do_io makes of the answer.
Attempt(c, plain, ok) ==
  \E a \in Answers(c.num) :
    \/ /\ a = "done"
       /\ Transfers(c)
    \/ /\ a = "blocked"
       /\ halt' = "blocked"
       /\ ret' = Returned(c.op, a, c.num, c.file, FALSE)
       /\ UNCHANGED <<kernelVars, m_datas, loopVars, eventVars, timerVars, call>>
    \/ /\ a = "ebadf" \/ (a = "again" /\ plain)
       /\ Finishes(c, a, FALSE)
       /\ UNCHANGED <<halt, kernelVars, m_datas, loopVars, eventVars, timerVars>>
    \/ /\ a = "again" /\ ~plain
       /\ Waits(c, ok)
       /\ UNCHANGED kernelVars

\* do_io up to its return or its first wait.
DoIo(op, n, ok) ==
  LET timed == ~Plain(n) /\ m_datas[n].timed[EventOf(op)] IN
  /\ Makes(op)
  /\ Attempt(Call(op, n, timed), Plain(n), ok)
  /\ UNCHANGED hook

\* connect(): a context is required while the hook is on.  A nonblocking
\* socket starts to connect, and only a hooked call waits for the outcome.
Connect(n, timed, ok) ==
  LET c == Call("connect", n, timed) IN
  /\ Makes("connect")
  /\ UNCHANGED hook
  /\ \/ /\ file[n] = NoFile \/ (hook /\ m_datas[n] = NoCtx)
        /\ Finishes(c, "ebadf", FALSE)
        /\ UNCHANGED <<halt, kernelVars, m_datas, loopVars, eventVars, timerVars>>
     \/ /\ file[n] # NoFile /\ (hook => m_datas[n] # NoCtx)
        /\ ~file[n].sock \/ file[n].conn # "no"
        /\ file' = ErrorTold(n)
        /\ Finishes(c, "error", FALSE)
        /\ UNCHANGED <<halt, opened, rawClosed, m_datas, loopVars, eventVars, timerVars>>
     \/ /\ file[n] # NoFile /\ (hook => m_datas[n] # NoCtx)
        /\ file[n].sock /\ file[n].conn = "no" /\ ~file[n].nonblock
        /\ halt' = "blocked"
        /\ ret' = Returned("connect", "blocked", n, file[n].id, FALSE)
        /\ UNCHANGED <<kernelVars, m_datas, loopVars, eventVars, timerVars, call>>
     \/ /\ file[n] # NoFile /\ (hook => m_datas[n] # NoCtx)
        /\ file[n].sock /\ file[n].conn = "no" /\ file[n].nonblock
        /\ file' = [file EXCEPT ![n].conn = "pending"]
        /\ UNCHANGED <<opened, rawClosed>>
        /\ \/ /\ Plain(n)
              /\ Finishes(c, "again", FALSE)
              /\ UNCHANGED <<halt, m_datas, loopVars, eventVars, timerVars>>
           \/ /\ ~Plain(n)
              /\ Waits(c, ok)

\* sleep(), usleep(), nanosleep(); without the hook the thread sleeps.
Sleep ==
  /\ Makes("sleep")
  /\ IF hook THEN sleepers' = sleepers \cup {cur} /\ cur' = None
             ELSE UNCHANGED <<sleepers, cur>>
  /\ UNCHANGED <<halt, hook, kernelVars, m_datas, phase, queue, eventVars,
                 armed, call, ret>>

-----------------------------------------------------------------------------
\* The scheduler swaps a fibre in; one that waited cancels its timer first.
TakeFiber ==
  LET f == Head(queue).fiber IN
  /\ halt = "no" /\ phase = "run" /\ cur = None /\ queue # <<>>
  /\ Head(queue).kind = "fiber"
  /\ queue' = Tail(queue)
  /\ cur' = f
  /\ armed' = IF call[f] # NoCall THEN WithoutTimer(armed, f) ELSE armed
  /\ UNCHANGED <<halt, hook, kernelVars, m_datas, phase, eventVars, sleepers,
                 call, calls, ret>>

\* The rest of do_io behind YieldToHold(): time-out or retry.
Resumed(ok) ==
  LET c == call[cur] IN
  /\ halt = "no" /\ cur # None /\ call[cur] # NoCall
  /\ IF c.cancelled \/ c.op = "connect"
     THEN /\ Finishes(c, IF c.cancelled THEN "timedout" ELSE ConnectResult(c.num), FALSE)
          /\ file' = IF c.cancelled THEN file ELSE ErrorTold(c.num)
          /\ UNCHANGED <<halt, opened, rawClosed, m_datas, loopVars, eventVars, timerVars>>
     ELSE Attempt(c, FALSE, ok)
  /\ UNCHANGED <<hook, calls>>

\* The callback of a sleep timer schedules the fibre.
TakeWake ==
  /\ halt = "no" /\ phase = "run" /\ cur = None /\ queue # <<>>
  /\ Head(queue).kind = "wake"
  /\ queue' = Append(Tail(queue), FiberItem(Head(queue).fiber))
  /\ UNCHANGED <<halt, hook, kernelVars, m_datas, phase, cur, eventVars,
                 timerVars, call, calls, ret>>

\* The callback of a condition timer has something to do: the timer_info is
\* still alive and not cancelled.
TimerFires(t) == call[t.fiber].id = t.id /\ ~call[t.fiber].cancelled

\* The callback of a condition timer, with cancelEvent.
TakeTimer ==
  LET t == Head(queue)
      p == <<call[t.fiber].num, call[t.fiber].ev>>
  IN
  /\ halt = "no" /\ phase = "run" /\ cur = None /\ queue # <<>>
  /\ t.kind = "timer"
  /\ IF TimerFires(t)
     THEN /\ call' = [call EXCEPT ![t.fiber].cancelled = TRUE]
          /\ IF p \in events /\ ctx[p].id = file[p[1]].id
             THEN /\ events' = events \ {p}
                  /\ queue' = Append(Tail(queue), FiberItem(ctx[p].fiber))
             ELSE queue' = Tail(queue) /\ UNCHANGED events
     ELSE queue' = Tail(queue) /\ UNCHANGED <<call, events>>
  /\ UNCHANGED <<halt, hook, kernelVars, m_datas, phase, cur, ctx, timerVars,
                 calls, ret>>

\* The callback of the fibre ends.
Finish ==
  /\ halt = "no" /\ cur # None /\ call[cur] = NoCall
  /\ cur' = None
  /\ UNCHANGED <<halt, hook, kernelVars, m_datas, phase, queue, eventVars,
                 timerVars, call, calls, ret>>

GoIdle ==
  /\ halt = "no" /\ phase = "run" /\ cur = None /\ queue = <<>>
  /\ phase' = "timers"
  /\ UNCHANGED <<halt, hook, kernelVars, m_datas, queue, cur, eventVars,
                 timerVars, call, calls, ret>>

\* listExpiredCb: a timer that is due leaves the set, its callback is queued.
Expire(t) ==
  /\ halt = "no" /\ phase = "timers"
  /\ t \in armed
  /\ armed' = armed \ {t}
  /\ queue' = Append(queue, TimerItem(t[1], t[2]))
  /\ UNCHANGED <<halt, hook, kernelVars, m_datas, phase, cur, eventVars,
                 sleepers, call, calls, ret>>

ExpireSleep(f) ==
  /\ halt = "no" /\ phase = "timers"
  /\ f \in sleepers
  /\ sleepers' = sleepers \ {f}
  /\ queue' = Append(queue, WakeItem(f))
  /\ UNCHANGED <<halt, hook, kernelVars, m_datas, phase, cur, eventVars,
                 armed, call, calls, ret>>

ToEvents ==
  /\ halt = "no" /\ phase = "timers"
  /\ phase' = "events"
  /\ UNCHANGED <<halt, hook, kernelVars, m_datas, queue, cur, eventVars,
                 timerVars, call, calls, ret>>

\* The events of a number that epoll holds for the file it has now.
Watched(n) == {p \in events : p[1] = n /\ ctx[p].id = file[n].id}

\* epoll reports the file of a number as ready for the events on.  An error or
\* a hang-up, which a refused connection always reports, stands for both events,
\* and triggerEvent asserts that each is registered.
HandleEvent(n, on, err) ==
  LET real == IF err THEN {n} \X Evs ELSE on IN
  /\ halt = "no" /\ phase = "events"
  /\ Watched(n) # {} /\ on \subseteq Watched(n)
  /\ on # {} \/ err
  /\ file[n].conn # "pending"
  /\ file[n].conn = "refused" => err
  /\ \/ /\ real \subseteq events
        /\ events' = events \ real
        /\ queue' = queue \o Woken(real, n)
        /\ UNCHANGED halt
     \/ /\ ~(real \subseteq events)
        /\ halt' = "iomanager.cpp:37"
        /\ UNCHANGED <<events, queue>>
  /\ UNCHANGED <<hook, kernelVars, m_datas, phase, cur, ctx, timerVars,
                 call, calls, ret>>

IdleSwapOut ==
  /\ halt = "no" /\ phase = "events"
  /\ phase' = "run"
  /\ UNCHANGED <<halt, hook, kernelVars, m_datas, queue, cur, eventVars,
                 timerVars, call, calls, ret>>

\* The peer decides on a connection.
Decide(n, outcome) ==
  /\ halt = "no" /\ file[n] # NoFile
  /\ file[n].conn = "pending"
  /\ file' = [file EXCEPT ![n].conn = outcome]
  /\ UNCHANGED <<halt, hook, opened, rawClosed, m_datas, loopVars, eventVars,
                 timerVars, call, calls, ret>>

-----------------------------------------------------------------------------
User ==
  \/ SetHookEnable
  \/ Sleep
  \/ \E n \in Nums :
       \/ Socket(n)
       \/ OpenOther(n)
       \/ GetFlag(n)
       \/ Close(n)
       \/ \E b \in BOOLEAN : SetFlag(n, b) \/ Ioctl(n, b)
       \/ \E ev \in Evs : SetTimeout(n, ev)
       \/ \E op \in IoOps, ok \in BOOLEAN : DoIo(op, n, ok)
       \/ \E timed, ok \in BOOLEAN : Connect(n, timed, ok)

Loop ==
  \/ TakeFiber
  \/ TakeWake
  \/ TakeTimer
  \/ \E ok \in BOOLEAN : Resumed(ok)
  \/ Finish
  \/ GoIdle
  \/ ToEvents
  \/ IdleSwapOut

Next ==
  \/ User
  \/ Loop
  \/ \E f \in Fibers, i \in 1 .. MaxCalls : Expire(<<f, i>>)
  \/ \E f \in Fibers : ExpireSleep(f)
  \/ \E n \in Nums, err \in BOOLEAN :
       \E on \in SUBSET ({n} \X Evs) : HandleEvent(n, on, err)
  \/ \E n \in Nums, outcome \in {"yes", "refused"} : Decide(n, outcome)

Spec == Init /\ [][Next]_vars

\* The thread keeps running, a fibre that makes no more calls ends, and time
\* passes.  Nothing is assumed of the peers.
FairSpec ==
  /\ Spec
  /\ WF_vars(Loop)
  /\ \A f \in Fibers : SF_vars(\E i \in 1 .. MaxCalls : Expire(<<f, i>>))

-----------------------------------------------------------------------------
TypeOK ==
  /\ halt \in {"no", "blocked", "iomanager.cpp:37", "iomanager.cpp:111",
               "iomanager.cpp:131"}
  /\ hook \in BOOLEAN
  /\ \A n \in Nums : file[n].id \in 0 .. opened /\ m_datas[n].id \in 0 .. opened
  /\ opened \in 0 .. MaxCalls /\ rawClosed \subseteq Nums
  /\ phase \in {"run", "timers", "events"}
  /\ \A i \in DOMAIN queue : queue[i].fiber \in Fibers
  /\ cur \in Fibers \cup {None}
  /\ events \subseteq Nums \X Evs
  /\ armed \subseteq Fibers \X (1 .. MaxCalls)
  /\ sleepers \subseteq Fibers
  /\ \A f \in Fibers : call[f].id \in 0 .. calls
  /\ calls \in 0 .. MaxCalls

\* A context of the descriptor table belongs to the file that is open under
\* its number: a number that is used again starts with fresh flags and
\* time-outs, unless it was closed with the hook off (fd_manager.cpp:103-106
\* keeps a context that is there).
TableFollowsFiles ==
  \A n \in Nums \ rawClosed :
    m_datas[n] # NoCtx => m_datas[n].id = file[n].id

\* A fibre never blocks the thread in a system call on a socket, whatever it
\* and others did to the flags with fcntl, unless the socket was made or its
\* number closed with the hook off or ioctl(FIONBIO) cleared its flag.
ThreadNeverBlocks ==
  halt = "blocked" => ret.met.raw \/ ret.num \in rawClosed

\* fcntl(F_GETFL) shows each user of a socket the O_NONBLOCK it asked for last,
\* although the kernel's flag is the library's (hook.cpp:455-472).
UserSeesOwnFlag ==
  ret.op = "getfl" /\ ret.num \notin rawClosed => ret.res = ret.met.user

\* Every armed condition timer belongs to a call that is still in progress:
\* time-out, event, close and a refused addEvent all cancel it, so none can
\* meet a later call (hook.cpp:155-172, 304-325).
NoTimerOutlivesCall ==
  halt = "no" => \A t \in armed : call[t[1]].id = t[2]

\* Every registered event is that of a fibre suspended in a call on the file
\* that is open under the number: close() leaves no waiter behind.
EventsHaveWaiters ==
  halt = "no" =>
    \A p \in events :
      \/ p[1] \in rawClosed
      \/ LET c == call[ctx[p].fiber] IN
          /\ c # NoCall /\ c.num = p[1] /\ c.ev = p[2]
          /\ ctx[p].id = file[p[1]].id
          /\ c.file = file[p[1]].id

\* connect() returns 0 only for a connection that is established, unless
\* addEvent was refused, the number was closed and used again meanwhile, or
\* another call on the socket took the error of a refused connection first.
ConnectTellsTruth ==
  ret.op = "connect" /\ ret.res = "ok" /\ ~ret.refused /\ ret.id = ret.met.id
    => ret.met.conn \in {"yes", "taken"}

\* A call with a time-out returns, whatever the peer does, unless the process
\* ended or the number was closed with the hook off under it.
TimedCallReturns ==
  \A f \in Fibers :
    (call[f] # NoCall /\ call[f].timed)
      ~> (call[f] = NoCall \/ halt # "no" \/ call[f].num \in rawClosed)
=============================================================================
