------------------------------ MODULE IOManager ------------------------------
(***************************************************************************)
(* The event loop of fatdog/iomanager.cpp as one thread drives it: an      *)
(* IOManager built with threads = 1 and use_caller = true (scene 2 of      *)
(* scheduler.h, the default).  The main fibre schedules work and calls     *)
(* stop(); stop() enters run() on the root fibre, which alternates between *)
(* the fibres in m_fibers and the idle fibre until nothing is left to do.  *)
(*                                                                         *)
(* Fibres are cooperative: control changes hands only where a fibre        *)
(* yields, waits or ends, so an action is what happens between two such    *)
(* points.  What a callback does is a free choice among the operations of  *)
(* the library.  Deadlines are TimerManager's business: here any armed     *)
(* timer may be found expired whenever the idle fibre looks.               *)
(*                                                                         *)
(* A failed FATDOG_ASSERT ends the process: halt then names its line.      *)
(***************************************************************************)
EXTENDS Integers, Sequences, FiniteSets

CONSTANTS
  Fibers,        \* the Fiber objects
  Fds,           \* the file descriptors
  None,          \* nullptr
  Ops,           \* the operations the callbacks of this workload use
  CtlResults,    \* what epoll_ctl may answer: TRUE for 0, FALSE for -1
  Errors,        \* whether the kernel may report EPOLLERR or EPOLLHUP
  PipeCapacity,  \* bytes the tickle pipe takes before write() blocks (65536)
  MaxOps         \* bound: operations all callbacks perform together

ASSUME IOAssumption ==
  /\ IsFiniteSet(Fds)
  /\ None \notin Fibers
  /\ CtlResults \subseteq BOOLEAN
  /\ Errors \in BOOLEAN
  /\ PipeCapacity \in Nat \ {0}
  /\ MaxOps \in Nat

Evs == {"READ", "WRITE"}
States == {"INIT", "HOLD", "EXEC", "TERM", "READY", "EXCEPT"}

\* What m_fibers, an EventContext or a timer holds: a fibre, a callback of the
\* user, or the callback of a sleep, which schedules the sleeping fibre.
FiberItem(f) == [kind |-> "fiber", fiber |-> f]
CbItem       == [kind |-> "cb", fiber |-> None]
WakeItem(f)  == [kind |-> "wake", fiber |-> f]
NoItem       == [kind |-> "none", fiber |-> None]
Items == [kind : {"fiber", "wake"}, fiber : Fibers] \cup {CbItem}

VARIABLES
  phase,       \* who has the thread: see TypeOK
  halt,        \* "no", or why the process can do nothing any more
  \* Scheduler
  m_fibers, m_stopping, m_activeThreadCount, m_idleThreadCount,
  rootEnded,   \* m_rootFiber is TERM: run() was entered by stop() and has ended
  cb_fiber,    \* run()'s local: the fibre that runs callbacks
  cur,         \* run()'s local ft: the task running now
  fstate,      \* Fiber::m_state
  \* IOManager
  events,      \* FdContext::events of all descriptors, as pairs <<fd, event>>
  ctx,         \* the fiber or cb an EventContext holds
  m_pendingEventCount,
  pipe,        \* bytes in the tickle pipe
  handled,     \* descriptors of this epoll_wait already processed
  \* TimerManager
  sleepers,    \* fibres with an armed sleep timer
  cbTimers,    \* armed timers with a user callback
  m_tickled,
  ops,         \* operations performed so far
  forgotten    \* history: fibres whose event delEvent took while they waited

schedVars == <<m_stopping, m_activeThreadCount, m_idleThreadCount, rootEnded>>
fdVars    == <<events, ctx, m_pendingEventCount>>
otherVars == <<sleepers, cbTimers, m_tickled, forgotten>>
vars == <<phase, halt, m_fibers, m_stopping, m_activeThreadCount,
          m_idleThreadCount, rootEnded, cb_fiber, cur, fstate, events, ctx,
          m_pendingEventCount, pipe, handled, sleepers, cbTimers, m_tickled, ops,
          forgotten>>

-----------------------------------------------------------------------------
\* Mutated forms of the definitions below, one plausible slip each.
MutIdle == m_fibers = <<>> /\ m_activeThreadCount = 0
MutPendingAfter(n) == m_pendingEventCount - n - (IF n > 0 THEN 1 ELSE 0)
MutPendingKept(n) == m_pendingEventCount
MutUnregister(S) == events
MutTriggered(fd, real) ==
  (IF "READ" \in real THEN <<ctx[<<fd, "READ">>]>> ELSE <<>>)
    \o (IF "WRITE" \in real THEN <<ctx[<<fd, "READ">>]>> ELSE <<>>)

-----------------------------------------------------------------------------
\* Scheduler::stopping() and IOManager::stopping(), but for m_stopping.
Idle ==
  /\ sleepers = {} /\ cbTimers = 0
  /\ m_pendingEventCount = 0
  /\ m_fibers = <<>> /\ m_activeThreadCount = 0

\* IOManager::tickle(), done when wanted holds: silent while some thread is
\* idle, else one byte into the pipe, whose write end blocks when it is full.
Tickle(wanted) ==
  LET writes == wanted /\ m_idleThreadCount = 0
      full   == pipe = PipeCapacity
  IN  /\ pipe' = IF writes /\ ~full THEN pipe + 1 ELSE pipe
      /\ halt' = IF writes /\ full THEN "pipe" ELSE halt

\* Scheduler::schedule() of each item of s in turn: only the first one can
\* find the queue empty and tickle.
Schedule(s) ==
  /\ m_fibers' = m_fibers \o s
  /\ Tickle(s # <<>> /\ m_fibers = <<>>)

\* m_pendingEventCount after n decrements.
PendingAfter(n) == m_pendingEventCount - n

\* FdContext::triggerEvent clears the bits of the pairs S.
Unregister(S) == events \ S

\* FdContext::triggerEvent schedules what the contexts hold, READ first; the
\* contexts keep it.
Triggered(fd, real) ==
  (IF "READ" \in real THEN <<ctx[<<fd, "READ">>]>> ELSE <<>>)
    \o (IF "WRITE" \in real THEN <<ctx[<<fd, "WRITE">>]>> ELSE <<>>)

Registered(fd) == {e \in Evs : <<fd, e>> \in events}

\* run(): a fibre that yielded READY goes back to the end of the queue.
Requeued(f) == <<FiberItem(f)>>

-----------------------------------------------------------------------------
Init ==
  /\ phase = "main" /\ halt = "no"
  /\ m_fibers = <<>> /\ m_stopping = FALSE
  /\ m_activeThreadCount = 0 /\ m_idleThreadCount = 0 /\ rootEnded = FALSE
  /\ cb_fiber = None /\ cur = NoItem
  /\ fstate = [f \in Fibers |-> "TERM"]
  /\ events = {} /\ ctx = [p \in Fds \X Evs |-> NoItem]
  /\ m_pendingEventCount = 0
  /\ pipe = 0 /\ handled = {}
  /\ sleepers = {} /\ cbTimers = 0 /\ m_tickled = FALSE
  /\ ops = 0 /\ forgotten = {}

\* Somebody's code runs on the thread: the main fibre before stop(), or a
\* task.  The callback of a sleep timer does one thing only, see RunWake.
UserCode == halt = "no" /\ (phase = "main" \/ (phase = "exec" /\ cur.kind # "wake"))
TaskCode == halt = "no" /\ phase = "exec" /\ cur.kind # "wake"

Does(op) ==
  /\ op \in Ops
  /\ ops < MaxOps
  /\ ops' = ops + 1

\* schedule(cb).
ScheduleCb ==
  /\ UserCode /\ Does("schedule")
  /\ Schedule(<<CbItem>>)
  /\ UNCHANGED <<phase, schedVars, cb_fiber, cur, fstate, fdVars, handled,
                 otherVars>>

\* addTimer(Timer::ptr): a timer that becomes the first one tickles, once
\* until getNextTimer() is called again.
TimerTickle ==
  \E front \in {b \in BOOLEAN : sleepers = {} /\ cbTimers = 0 => b} :
    /\ m_tickled' = (m_tickled \/ front)
    /\ Tickle(front /\ ~m_tickled)

\* addTimer(ms, cb).
AddTimer ==
  /\ UserCode /\ Does("timer")
  /\ cbTimers' = cbTimers + 1
  /\ TimerTickle
  /\ UNCHANGED <<phase, m_fibers, schedVars, cb_fiber, cur, fstate, fdVars,
                 handled, sleepers, forgotten>>

\* IOManager::addEvent for an item it stores in the context; ok is the answer
\* of epoll_ctl.
AddEvent(fd, ev, it, ok) ==
  \/ /\ <<fd, ev>> \in events
     /\ halt' = "iomanager.cpp:111"
     /\ UNCHANGED fdVars
  \/ /\ <<fd, ev>> \notin events
     /\ ~ok
     /\ UNCHANGED <<fdVars, halt>>
  \/ /\ <<fd, ev>> \notin events
     /\ ok
     /\ ctx[<<fd, ev>>] # NoItem
     /\ halt' = "iomanager.cpp:131"
     /\ UNCHANGED fdVars
  \/ /\ <<fd, ev>> \notin events
     /\ ok
     /\ ctx[<<fd, ev>>] = NoItem
     /\ events' = events \cup {<<fd, ev>>}
     /\ m_pendingEventCount' = m_pendingEventCount + 1
     /\ ctx' = [ctx EXCEPT ![<<fd, ev>>] = it]
     /\ UNCHANGED halt

\* addEvent(fd, event, cb).
AddEventCb(fd, ev, ok) ==
  /\ UserCode /\ Does("eventcb")
  /\ AddEvent(fd, ev, CbItem, ok)
  /\ UNCHANGED <<phase, m_fibers, schedVars, cb_fiber, cur, fstate, pipe,
                 handled, otherVars>>

\* delEvent(fd, event): the context is emptied and nothing is scheduled.  A
\* fibre that waited there stays suspended, for nobody resumes it any more.
DelEvent(fd, ev, ok) ==
  /\ UserCode /\ Does("del")
  /\ <<fd, ev>> \in events
  /\ ok
  /\ events' = Unregister({<<fd, ev>>})
  /\ m_pendingEventCount' = PendingAfter(1)
  /\ ctx' = [ctx EXCEPT ![<<fd, ev>>] = NoItem]
  /\ forgotten' = forgotten \cup ({ctx[<<fd, ev>>].fiber} \cap Fibers)
  /\ UNCHANGED <<phase, halt, m_fibers, schedVars, cb_fiber, cur, fstate, pipe,
                 handled, sleepers, cbTimers, m_tickled>>

\* cancelEvent(fd, event).
CancelEvent(fd, ev, ok) ==
  /\ UserCode /\ Does("cancel")
  /\ <<fd, ev>> \in events
  /\ ok
  /\ events' = Unregister({<<fd, ev>>})
  /\ Schedule(Triggered(fd, {ev}))
  /\ m_pendingEventCount' = PendingAfter(1)
  /\ UNCHANGED <<phase, schedVars, cb_fiber, cur, fstate, ctx, handled,
                 otherVars>>

\* cancelAll(fd): m_pendingEventCount is left alone.
CancelAll(fd, ok) ==
  LET on == Registered(fd) IN
  /\ UserCode /\ Does("cancelAll")
  /\ on # {}
  /\ ok
  /\ events' = Unregister({fd} \X on)
  /\ Schedule(Triggered(fd, on))
  /\ UNCHANGED <<phase, schedVars, cb_fiber, cur, fstate, ctx,
                 m_pendingEventCount, handled, otherVars>>

\* Scheduler::stop() on the main fibre: return at once if there is nothing to
\* do, else tickle and call() the root fibre.  The first call() enters run();
\* a root fibre that has ended resumes behind its last back().
Stop ==
  /\ halt = "no" /\ phase = "main"
  /\ m_stopping' = TRUE
  /\ m_tickled' = FALSE
  /\ \/ /\ Idle
        /\ phase' = "stopped"
        /\ UNCHANGED <<pipe, halt>>
     \/ /\ ~Idle /\ ~rootEnded
        /\ phase' = "run"
        /\ Tickle(TRUE)
     \/ /\ ~Idle /\ rootEnded
        /\ halt' = "fiber.cpp:284"
        /\ UNCHANGED <<phase, pipe>>
  /\ UNCHANGED <<m_fibers, m_activeThreadCount, m_idleThreadCount, rootEnded,
                 cb_fiber, cur, fstate, fdVars, handled, sleepers, cbTimers, ops,
                 forgotten>>

\* The main fibre goes on after stop() and uses the manager again; at the
\* latest the destructor calls stop() once more.
GoOn ==
  /\ halt = "no" /\ phase = "stopped" /\ Does("restart")
  /\ phase' = "main"
  /\ UNCHANGED <<halt, m_fibers, schedVars, cb_fiber, cur, fstate, fdVars, pipe,
                 handled, otherVars>>

-----------------------------------------------------------------------------
\* The fibres that items of the queue q refer to.
Queued(q) == {q[i].fiber : i \in DOMAIN q}

\* Fiber objects nobody refers to: new Fiber may return any of them.
Free(f) ==
  /\ fstate[f] \in {"TERM", "EXCEPT"}
  /\ f # cb_fiber
  /\ \A p \in Fds \X Evs : ctx[p].fiber # f
  /\ f \notin Queued(m_fibers)

\* run() takes a fibre and swaps it in.
TakeFiber ==
  LET it == Head(m_fibers) IN
  /\ halt = "no" /\ phase = "run" /\ m_fibers # <<>>
  /\ it.kind = "fiber"
  /\ fstate[it.fiber] \notin {"TERM", "EXCEPT"}
  /\ m_fibers' = Tail(m_fibers)
  /\ m_activeThreadCount' = m_activeThreadCount + 1
  /\ fstate' = [fstate EXCEPT ![it.fiber] = "EXEC"]
  /\ cur' = it
  /\ phase' = "exec"
  /\ UNCHANGED <<halt, m_stopping, m_idleThreadCount, rootEnded, cb_fiber,
                 fdVars, pipe, handled, otherVars, ops>>

\* run() takes a callback and runs it on cb_fiber, or on a new fibre.
TakeCb(f) ==
  LET it == Head(m_fibers) IN
  /\ halt = "no" /\ phase = "run" /\ m_fibers # <<>>
  /\ it.kind \in {"cb", "wake"}
  /\ IF cb_fiber = None THEN Free(f) ELSE f = cb_fiber
  /\ m_fibers' = Tail(m_fibers)
  /\ m_activeThreadCount' = m_activeThreadCount + 1
  /\ cb_fiber' = f
  /\ fstate' = [fstate EXCEPT ![f] = "EXEC"]
  /\ cur' = it
  /\ phase' = "exec"
  /\ UNCHANGED <<halt, m_stopping, m_idleThreadCount, rootEnded, fdVars, pipe,
                 handled, otherVars, ops>>

\* The fibre that runs now.
CurFiber == IF cur.kind = "fiber" THEN cur.fiber ELSE cb_fiber

\* The running fibre swaps out in state st and run() resumes behind swapIn():
\* a callback's fibre that did not end is no longer cb_fiber.
SwapOut(st) ==
  LET onCb == cur.kind # "fiber"
      ended == st \in {"TERM", "EXCEPT"}
  IN  /\ phase' = "run"
      /\ m_activeThreadCount' = m_activeThreadCount - 1
      /\ fstate' = [fstate EXCEPT ![CurFiber] =
                      IF onCb /\ ended THEN "INIT" ELSE st]
      /\ cb_fiber' = IF onCb /\ ~ended THEN None ELSE cb_fiber
      /\ cur' = NoItem
      /\ UNCHANGED <<m_stopping, m_idleThreadCount, rootEnded, handled>>

\* addEvent(fd, event) for the current fibre, then YieldToHold(): what do_io
\* does when the descriptor is not ready; on -1 the fibre goes on.
WaitEvent(fd, ev, ok) ==
  /\ TaskCode /\ Does("wait")
  /\ AddEvent(fd, ev, FiberItem(CurFiber), ok)
  /\ IF events' # events
     THEN SwapOut("HOLD")
     ELSE UNCHANGED <<phase, schedVars, cb_fiber, cur, fstate, handled>>
  /\ UNCHANGED <<m_fibers, pipe, otherVars>>

\* The sleep hook: a timer that schedules this fibre, then YieldToHold().
Sleep ==
  /\ TaskCode /\ Does("sleep")
  /\ sleepers' = sleepers \cup {CurFiber}
  /\ TimerTickle
  /\ SwapOut("HOLD")
  /\ UNCHANGED <<m_fibers, fdVars, cbTimers, forgotten>>

\* YieldToReady(); run() schedules the fibre again.
YieldToReady ==
  /\ TaskCode /\ Does("yield")
  /\ SwapOut("READY")
  /\ Schedule(Requeued(CurFiber))
  /\ UNCHANGED <<fdVars, otherVars>>

\* The callback of the task returns (TERM) or throws (EXCEPT).
Finish(st) ==
  /\ TaskCode
  /\ SwapOut(st)
  /\ UNCHANGED <<halt, m_fibers, fdVars, pipe, otherVars, ops>>

\* The callback of a sleep timer: iom->schedule(fiber), then it ends.
RunWake ==
  /\ halt = "no" /\ phase = "exec" /\ cur.kind = "wake"
  /\ Schedule(<<FiberItem(cur.fiber)>>)
  /\ SwapOut("TERM")
  /\ UNCHANGED <<fdVars, otherVars, ops>>

-----------------------------------------------------------------------------
\* run() finds nothing to take and swaps the idle fibre in; idle() asks
\* stopping() and ends, which ends run(), or calls epoll_wait.
GoIdle ==
  /\ halt = "no" /\ phase = "run" /\ m_fibers = <<>>
  /\ m_tickled' = FALSE
  /\ IF m_stopping /\ Idle
     THEN phase' = "stopped" /\ rootEnded' = TRUE /\ UNCHANGED m_idleThreadCount
     ELSE /\ phase' = "timers"
          /\ m_idleThreadCount' = m_idleThreadCount + 1
          /\ UNCHANGED rootEnded
  /\ UNCHANGED <<halt, m_fibers, m_stopping, m_activeThreadCount, cb_fiber, cur,
                 fstate, fdVars, pipe, handled, sleepers, cbTimers, ops, forgotten>>

\* listExpiredCb(cbs) and schedule(cbs): one expired timer.
Expire ==
  /\ halt = "no" /\ phase = "timers"
  /\ \/ \E f \in sleepers :
          /\ sleepers' = sleepers \ {f}
          /\ Schedule(<<WakeItem(f)>>)
          /\ UNCHANGED cbTimers
     \/ /\ cbTimers > 0
        /\ cbTimers' = cbTimers - 1
        /\ Schedule(<<CbItem>>)
        /\ UNCHANGED sleepers
  /\ UNCHANGED <<phase, schedVars, cb_fiber, cur, fstate, fdVars, handled,
                 m_tickled, ops, forgotten>>

\* The timers are done; the loop over the epoll events empties the pipe.
ToEvents ==
  /\ halt = "no" /\ phase = "timers"
  /\ phase' = "events"
  /\ pipe' = 0
  /\ UNCHANGED <<halt, m_fibers, schedVars, cb_fiber, cur, fstate, fdVars,
                 handled, otherVars, ops>>

\* idle: one epoll event.  The kernel reports mask for a descriptor in the
\* epoll set; EPOLLERR and EPOLLHUP stand for both events, registered or not.
Real(mask) == IF "ERR" \in mask THEN Evs ELSE mask

HandleEvent(fd, mask, ok) ==
  /\ halt = "no" /\ phase = "events"
  /\ fd \notin handled
  /\ Registered(fd) # {}
  /\ mask # {} /\ mask \subseteq Registered(fd) \cup (IF Errors THEN {"ERR"} ELSE {})
  /\ handled' = handled \cup {fd}
  /\ \/ /\ ~ok
        /\ UNCHANGED <<halt, m_fibers, pipe, fdVars>>
     \/ /\ ok /\ ~(Real(mask) \subseteq Registered(fd))
        /\ halt' = "iomanager.cpp:37"
        /\ UNCHANGED <<m_fibers, pipe, fdVars>>
     \/ /\ ok /\ Real(mask) \subseteq Registered(fd)
        /\ events' = Unregister({fd} \X Real(mask))
        /\ Schedule(Triggered(fd, Real(mask)))
        /\ m_pendingEventCount' = PendingAfter(Cardinality(Real(mask)))
        /\ UNCHANGED ctx
  /\ UNCHANGED <<phase, schedVars, cb_fiber, cur, fstate, otherVars, ops>>

\* The idle fibre swaps out and run() scans m_fibers again.
IdleSwapOut ==
  /\ halt = "no" /\ phase = "events"
  /\ phase' = "run"
  /\ m_idleThreadCount' = m_idleThreadCount - 1
  /\ handled' = {}
  /\ UNCHANGED <<halt, m_fibers, m_stopping, m_activeThreadCount, rootEnded,
                 cb_fiber, cur, fstate, fdVars, pipe, otherVars, ops>>

-----------------------------------------------------------------------------
User ==
  \/ ScheduleCb
  \/ AddTimer
  \/ \E fd \in Fds, ev \in Evs, ok \in CtlResults :
       \/ AddEventCb(fd, ev, ok)
       \/ DelEvent(fd, ev, ok)
       \/ CancelEvent(fd, ev, ok)
       \/ WaitEvent(fd, ev, ok)
  \/ \E fd \in Fds, ok \in CtlResults : CancelAll(fd, ok)
  \/ Sleep
  \/ YieldToReady

Masks == SUBSET (Evs \cup {"ERR"})

Loop ==
  \/ TakeFiber
  \/ \E f \in Fibers : TakeCb(f)
  \/ \E st \in {"TERM", "EXCEPT"} : Finish(st)
  \/ RunWake
  \/ GoIdle
  \/ ToEvents
  \/ IdleSwapOut

Next ==
  \/ User
  \/ Stop
  \/ GoOn
  \/ Loop
  \/ Expire
  \/ \E fd \in Fds, mask \in Masks, ok \in CtlResults : HandleEvent(fd, mask, ok)

Spec == Init /\ [][Next]_vars

\* The thread keeps running, stop() is called, a task that does nothing else
\* returns, a timer expires in the end, and a descriptor in the epoll set
\* becomes ready in the end.
FairSpec ==
  /\ Spec
  /\ WF_vars(Loop)
  /\ WF_vars(Stop)
  /\ SF_vars(Expire)
  /\ \A fd \in Fds, ev \in Evs :
       SF_vars(\E mask \in Masks, ok \in CtlResults :
                 ev \in mask /\ HandleEvent(fd, mask, ok))

-----------------------------------------------------------------------------
TypeOK ==
  /\ phase \in {"main", "run", "exec", "timers", "events", "stopped"}
  /\ halt \in {"no", "pipe", "iomanager.cpp:37", "iomanager.cpp:111",
               "iomanager.cpp:131", "fiber.cpp:284"}
  /\ m_fibers \in Seq(Items)
  /\ m_stopping \in BOOLEAN
  /\ m_activeThreadCount \in Nat
  /\ m_idleThreadCount \in Nat
  /\ rootEnded \in BOOLEAN
  /\ cb_fiber \in Fibers \cup {None}
  /\ cur \in Items \cup {NoItem}
  /\ fstate \in [Fibers -> States]
  /\ events \subseteq Fds \X Evs
  /\ ctx \in [Fds \X Evs -> Items \cup {NoItem}]
  /\ m_pendingEventCount \in Nat
  /\ pipe \in 0 .. PipeCapacity
  /\ handled \subseteq Fds
  /\ sleepers \subseteq Fibers
  /\ cbTimers \in Nat
  /\ m_tickled \in BOOLEAN
  /\ ops \in 0 .. MaxOps
  /\ forgotten \subseteq Fibers

\* m_pendingEventCount never falls below the number of registered events:
\* whatever order of triggers, cancels and deletions removes them, stopping()
\* cannot become true while a fibre still waits for a descriptor.
PendingCoversRegistered == m_pendingEventCount >= Cardinality(events)

\* How many ways there are by which the suspended fibre f is resumed.
Resumers(f) ==
  Cardinality({i \in DOMAIN m_fibers : m_fibers[i].fiber = f})
    + Cardinality({p \in events : ctx[p].fiber = f})
    + (IF f \in sleepers THEN 1 ELSE 0)
    + (IF cur = WakeItem(f) THEN 1 ELSE 0)

\* A suspended fibre is resumed in exactly one way: it is not resumed twice by
\* a trigger and a cancel, or by a timer and the queue, and it is not forgotten
\* unless delEvent took the event it waits for.  A fibre that runs or has ended
\* is not waiting anywhere.
ResumedOnce ==
  halt = "no" =>
    \A f \in Fibers :
      Resumers(f) = IF fstate[f] \in {"HOLD", "READY"} /\ f \notin forgotten
                    THEN 1 ELSE 0

\* When run() ends (scheduler.h:23-25, "no work to do") nothing is left: no
\* queued task, no armed timer, no registered event, and no suspended fibre but
\* those whose event delEvent took.
StoppedMeansDone ==
  phase = "stopped" =>
    /\ m_fibers = <<>> /\ sleepers = {} /\ cbTimers = 0 /\ events = {}
    /\ \A f \in Fibers :
         fstate[f] \in {"INIT", "TERM", "EXCEPT"} \/ f \in forgotten

Aborted == halt \notin {"no", "pipe"}

\* stop() returns: once it has entered run(), run() ends and gives the thread
\* back (unless an assertion ended the process), scheduler.h:31-32.
StopReturns == phase = "run" ~> (phase = "stopped" \/ Aborted)

\* addEvent finds the EventContext of an event that is not registered empty
\* (iomanager.cpp:131).
ContextIsEmpty == halt # "iomanager.cpp:131"

-----------------------------------------------------------------------------
\* The inductive invariant behind PendingCoversRegistered and StoppedMeansDone.
\* A registered event has something to schedule.
ContextsFilled == \A p \in events : ctx[p] \in Items /\ ctx[p].kind # "wake"

\* The counters and cur say who has the thread.
CountsFit ==
  /\ m_activeThreadCount = IF phase = "exec" THEN 1 ELSE 0
  /\ m_idleThreadCount = IF phase \in {"timers", "events"} THEN 1 ELSE 0
  /\ IF phase = "exec" THEN cur \in Items ELSE cur = NoItem
  /\ phase = "exec" /\ cur.kind # "fiber" => cb_fiber \in Fibers

ControlInv ==
  /\ TypeOK
  /\ PendingCoversRegistered
  /\ ContextsFilled
  /\ CountsFit
  /\ phase = "stopped" => Idle

\* Somebody will resume the suspended fibre f, or delEvent took its event.
Tracked(f) ==
  \/ f \in Queued(m_fibers)
  \/ \E p \in events : ctx[p].fiber = f
  \/ f \in sleepers
  \/ cur = WakeItem(f)
  \/ f \in forgotten

\* Only the current fibre is EXEC, and every suspended fibre is tracked.
FiberInv ==
  \A f \in Fibers :
    /\ fstate[f] = "EXEC" => phase = "exec" /\ f = CurFiber
    /\ fstate[f] \in {"HOLD", "READY"} => Tracked(f)
=============================================================================
