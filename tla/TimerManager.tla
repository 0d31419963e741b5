---------------------------- MODULE TimerManager ----------------------------
(***************************************************************************)
(* The timers of fatdog/timer.cpp and the thread that serves them.         *)
(*                                                                         *)
(* TimerManager keeps a std::set of Timer objects ordered by (m_next,      *)
(* address).  User code adds, cancels, refreshes and resets timers; the    *)
(* idle fibre of IOManager (the poller, iomanager.cpp:305-345) asks when   *)
(* the next one is due, sleeps in epoll_wait and then collects the         *)
(* callbacks of the expired ones.  m_tickled suppresses repeated wake-ups: *)
(* an insertion at the front calls onTimerInsertedAtFront() only when no   *)
(* such call was made since the last getNextTimer().  User code may run on *)
(* another thread while the poller is inside idle().                       *)
(*                                                                         *)
(* Every member function is one step: the class takes no lock, so calls    *)
(* that overlap in time are a data race and outside what it supports.      *)
(* Time is GetCurrentMS(), i.e. gettimeofday(), which may be stepped back. *)
(***************************************************************************)
EXTENDS Integers, FiniteSets

CONSTANTS
  Timers,        \* the Timer objects a run may create; a number is its address
  Addresses,     \* where the heap may put a Timer
  Periods,       \* the values of ms the user passes
  MaxTimeout,    \* MAX_TIMEOUT of IOManager::idle (5000 in the code)
  IntMax,        \* largest int (2^31 - 1 in the code)
  UserHorizon,   \* bound: the user calls nothing once the clock passed this
  ClockHorizon,  \* bound: the clock stops here
  MaxStepBacks,  \* bound: how often the wall clock may be set back
  MaxBacklog     \* bound: callbacks of one timer collected and not yet run

ASSUME TimerAssumption ==
  /\ Addresses \subseteq Nat
  /\ Timers \subseteq Addresses /\ Timers # Addresses
  /\ Periods \subseteq Nat
  /\ MaxTimeout \in Nat \ {0}
  /\ IntMax \in Nat
  /\ MaxTimeout <= IntMax
  /\ UserHorizon \in Nat
  /\ ClockHorizon \in Nat
  /\ MaxStepBacks \in Nat
  /\ MaxBacklog \in Nat

VARIABLES
  \* the manager
  m_timers,     \* std::set<Timer::ptr>; its order is Before
  m_tickled,
  \* the Timer objects
  made,         \* the timers that were constructed
  m_next, m_ms, m_recurring,
  m_cb,         \* m_cb[t]: the callback is not nullptr
  \* the environment: clock, wake-up pipe and run queue
  clock,        \* GetCurrentMS()
  notified,     \* onTimerInsertedAtFront() was called and the pipe not drained
  cbs,          \* cbs[t]: callbacks of t collected by the poller and not yet run
  \* the poller
  pc,           \* where IOManager::idle is
  asked,        \* the clock when it called getNextTimer()
  timeout,      \* the int it passes to epoll_wait
  wakeAt,       \* when the current epoll_wait times out, Forever if it does not
  sawPipe,      \* epoll_wait reported the tickle pipe
  \* what only the properties read
  started,      \* started[t]: when t was last armed, refreshed or restarted
  cancelled,    \* timers whose cancel() returned true
  late,         \* timers added or reset since the waiting poller asked
  stepBacks

mgrVars  == <<m_timers, m_tickled, made, m_next, m_ms, m_recurring, m_cb>>
pollVars == <<pc, asked, timeout, wakeAt, sawPipe>>
histVars == <<started, cancelled, late>>
vars == <<m_timers, m_tickled, made, m_next, m_ms, m_recurring, m_cb, clock,
          notified, cbs, pc, asked, timeout, wakeAt, sawPipe, started,
          cancelled, late, stepBacks>>

NoTimer == -1     \* ~0ull, what getNextTimer() returns for an empty set
Forever == -1     \* epoll_wait with a negative timeout never times out

-----------------------------------------------------------------------------
\* Mutated forms of the definitions below, one plausible slip each.
MutBefore(s, t, nx) == s < t
MutExpired(now, a) == {t \in m_timers : m_next[t] < now \/ (m_next[t] = now /\ t < a)}
MutCbAfterListing(E) == m_cb
MutDueNow(now, a) == {t \in m_timers : m_next[t] = now}
MutRunCb(t) ==
  /\ cbs' = [cbs EXCEPT ![t] = @ - 1]
  /\ UNCHANGED <<mgrVars, clock, notified, pollVars, histVars, stepBacks>>
MutErased(t) == m_timers
MutRestart(t, ms, from_now) == IF from_now THEN clock ELSE m_next[t] - ms

-----------------------------------------------------------------------------
\* Timer::Comparator: by due time, then by address.
Before(s, t, nx) == nx[s] < nx[t] \/ (nx[s] = nx[t] /\ s < t)

\* addTimer(Timer::ptr): does inserting t into S call onTimerInsertedAtFront()?
AtFront(t, S, nx) ==
  /\ \A s \in S \ {t} : Before(t, s, nx)
  /\ ~m_tickled

\* onTimerInsertedAtFront() is IOManager::tickle(), which writes to the pipe only
\* while no thread is in the idle fibre.
Wakes == pc = "loop"

\* TimerManager::addTimer(Timer::ptr) of t, due at nx[t], into the set S.
Insert(t, S, nx) ==
  /\ m_timers' = S \cup {t}
  /\ m_tickled' = (m_tickled \/ AtFront(t, S, nx))
  /\ notified' = (notified \/ (AtFront(t, S, nx) /\ Wakes))

\* m_timers.erase(m_timers.find(t)); find() returns end() if t is not there.
Erased(t) == m_timers \ {t}

\* t is *m_timers.begin().
IsBegin(t) == \A s \in m_timers \ {t} : Before(t, s, m_next)

\* What getNextTimer() returns when t is the first timer.
TimeUntil(t) == IF clock >= m_next[t] THEN 0 ELSE m_next[t] - clock

\* The conversion of a uint64_t to int.
ToInt(x) ==
  IF x \in 0 .. IntMax THEN x
  ELSE ((x + IntMax + 1) % (2 * (IntMax + 1))) - (IntMax + 1)

\* IOManager::idle: the int epoll_wait is called with.
EpollTimeout(next) ==
  IF next = NoTimer \/ ToInt(next) > MaxTimeout THEN MaxTimeout ELSE ToInt(next)

\* listExpiredCb: what precedes lower_bound(now_timer), for a now_timer due now at
\* address a, and then the run of timers with getNext() == now_ms.
Expired(now, a) ==
  LET nx    == [t \in Timers \cup {a} |-> IF t = a THEN now ELSE m_next[t]]
      below == {t \in m_timers : Before(t, a, nx)}
      rest  == m_timers \ below
  IN  below \cup {t \in rest :
        \A s \in rest : s = t \/ Before(s, t, m_next) => m_next[s] = now}

\* listExpiredCb: one-shot timers lose their callback.
CbAfterListing(E) ==
  [t \in Timers |-> IF t \in E /\ ~m_recurring[t] THEN FALSE ELSE m_cb[t]]

\* Timer::reset: the moment the new period counts from.
Restart(t, ms, from_now) == IF from_now THEN clock ELSE m_next[t] - m_ms[t]

-----------------------------------------------------------------------------
Init ==
  /\ m_timers = {} /\ m_tickled = FALSE
  /\ made = {}
  /\ m_next = [t \in Timers |-> 0]
  /\ m_ms = [t \in Timers |-> 0]
  /\ m_recurring = [t \in Timers |-> FALSE]
  /\ m_cb = [t \in Timers |-> FALSE]
  /\ clock = 0 /\ notified = FALSE
  /\ cbs = [t \in Timers |-> 0]
  /\ pc = "loop" /\ asked = 0 /\ timeout = 0 /\ wakeAt = 0 /\ sawPipe = FALSE
  /\ started = [t \in Timers |-> 0]
  /\ cancelled = {} /\ late = {}
  /\ stepBacks = 0

UserMayCall == clock <= UserHorizon

\* The poller has asked when the next timer is due and not yet returned.
Waiting == pc \in {"wait", "asleep"}
LateAfter(t) == IF Waiting THEN late \cup {t} ELSE late

\* TimerManager::addTimer(ms, cb, recurring), with the Timer constructor.
AddTimer(t, ms, recurring) ==
  LET nx == [m_next EXCEPT ![t] = clock + ms] IN
  /\ UserMayCall
  /\ t \notin made
  /\ made' = made \cup {t}
  /\ m_next' = nx
  /\ m_ms' = [m_ms EXCEPT ![t] = ms]
  /\ m_recurring' = [m_recurring EXCEPT ![t] = recurring]
  /\ m_cb' = [m_cb EXCEPT ![t] = TRUE]
  /\ Insert(t, m_timers, nx)
  /\ started' = [started EXCEPT ![t] = clock]
  /\ late' = LateAfter(t)
  /\ UNCHANGED <<clock, cbs, pollVars, cancelled, stepBacks>>

\* Timer::cancel; on a timer without a callback it only returns false.
Cancel(t) ==
  /\ UserMayCall
  /\ t \in made
  /\ m_cb[t]
  /\ m_cb' = [m_cb EXCEPT ![t] = FALSE]
  /\ m_timers' = Erased(t)
  /\ cancelled' = cancelled \cup {t}
  /\ UNCHANGED <<m_tickled, made, m_next, m_ms, m_recurring, clock, notified,
                 cbs, pollVars, started, late, stepBacks>>

\* Timer::refresh: erase and re-insert, without addTimer's front check.
Refresh(t) ==
  /\ UserMayCall
  /\ t \in made
  /\ m_cb[t]
  /\ t \in m_timers
  /\ m_next' = [m_next EXCEPT ![t] = clock + m_ms[t]]
  /\ m_timers' = Erased(t) \cup {t}
  /\ started' = [started EXCEPT ![t] = clock]
  /\ UNCHANGED <<m_tickled, made, m_ms, m_recurring, m_cb, clock, notified,
                 cbs, pollVars, cancelled, late, stepBacks>>

\* Timer::reset; the early returns change nothing.
Reset(t, ms, from_now) ==
  LET nx == [m_next EXCEPT ![t] = Restart(t, ms, from_now) + ms] IN
  /\ UserMayCall
  /\ t \in made
  /\ ~(ms = m_ms[t] /\ ~from_now)
  /\ m_cb[t]
  /\ t \in m_timers
  /\ m_ms' = [m_ms EXCEPT ![t] = ms]
  /\ m_next' = nx
  /\ Insert(t, Erased(t), nx)
  /\ started' = [started EXCEPT ![t] = IF from_now THEN clock ELSE @]
  /\ late' = LateAfter(t)
  /\ UNCHANGED <<made, m_recurring, m_cb, clock, cbs, pollVars, cancelled,
                 stepBacks>>

\* Scheduler::stop() asks stopping(), which calls getNextTimer() as well.
StoppingProbe ==
  /\ UserMayCall
  /\ m_tickled
  /\ m_tickled' = FALSE
  /\ UNCHANGED <<m_timers, made, m_next, m_ms, m_recurring, m_cb, clock,
                 notified, cbs, pollVars, histVars, stepBacks>>

-----------------------------------------------------------------------------
\* idle: stopping(next_timeout) calls getNextTimer(), then MAX_TIMEOUT applies.
GetNextTimer ==
  /\ pc = "loop"
  /\ m_tickled' = FALSE
  /\ asked' = clock
  /\ \/ m_timers = {} /\ timeout' = EpollTimeout(NoTimer)
     \/ \E t \in m_timers : IsBegin(t) /\ timeout' = EpollTimeout(TimeUntil(t))
  /\ pc' = "wait"
  /\ UNCHANGED <<m_timers, made, m_next, m_ms, m_recurring, m_cb, clock,
                 notified, cbs, wakeAt, sawPipe, histVars, stepBacks>>

WakeTime == IF timeout < 0 THEN Forever ELSE clock + timeout

\* idle: epoll_wait is entered; the timeout counts from now.
EpollWait ==
  /\ pc = "wait"
  /\ wakeAt' = WakeTime
  /\ pc' = "asleep"
  /\ UNCHANGED <<mgrVars, clock, notified, cbs, asked, timeout, sawPipe,
                 histVars, stepBacks>>

\* idle: epoll_wait fails with EINTR, any number of times, and is called again with
\* the full timeout.
Interrupted ==
  /\ pc = "asleep"
  /\ wakeAt' = WakeTime
  /\ UNCHANGED <<mgrVars, clock, notified, cbs, pc, asked, timeout, sawPipe,
                 histVars, stepBacks>>

\* epoll_wait returns: for the pipe, at its timeout or for another descriptor.  What
\* it was called with is not used again.
Return ==
  /\ pc' = "list"
  /\ sawPipe' = notified
  /\ asked' = 0 /\ timeout' = 0 /\ wakeAt' = 0
  /\ late' = {}
  /\ UNCHANGED <<mgrVars, clock, notified, cbs, started, cancelled, stepBacks>>

\* The timeout of epoll_wait has passed; where the bounded clock stops, every
\* finite one has.
TimedOut == wakeAt # Forever /\ (clock >= wakeAt \/ clock = ClockHorizon)

WakeDue ==
  /\ pc = "asleep"
  /\ notified \/ TimedOut
  /\ Return

WakeForIO ==
  /\ pc = "asleep"
  /\ Return

\* listExpiredCb(cbs) and schedule(cbs): recurring timers go back into the set.
ListExpiredCb == \E a \in Addresses \ m_timers :
  LET E == Expired(clock, a) IN
  /\ pc = "list"
  /\ \A t \in E : cbs[t] < MaxBacklog
  /\ cbs' = [t \in Timers |-> IF t \in E THEN cbs[t] + 1 ELSE cbs[t]]
  /\ m_next' = [t \in Timers |->
       IF t \in E /\ m_recurring[t] THEN clock + m_ms[t] ELSE m_next[t]]
  /\ started' = [t \in Timers |->
       IF t \in E /\ m_recurring[t] THEN clock ELSE started[t]]
  /\ m_timers' = (m_timers \ E) \cup {t \in E : m_recurring[t]}
  /\ m_cb' = CbAfterListing(E)
  /\ pc' = "drain"
  /\ UNCHANGED <<m_tickled, made, m_ms, m_recurring, clock, notified, asked,
                 timeout, wakeAt, sawPipe, cancelled, late, stepBacks>>

\* idle: the event loop empties the pipe if epoll_wait reported it.
DrainPipe ==
  /\ pc = "drain"
  /\ notified' = (notified /\ ~sawPipe)
  /\ pc' = "loop"
  /\ sawPipe' = FALSE
  /\ UNCHANGED <<mgrVars, clock, cbs, asked, timeout, wakeAt, histVars, stepBacks>>

-----------------------------------------------------------------------------
\* The scheduler runs a collected callback.
RunCb(t) ==
  /\ cbs[t] > 0
  /\ cbs' = [cbs EXCEPT ![t] = @ - 1]
  /\ UNCHANGED <<mgrVars, clock, notified, pollVars, histVars, stepBacks>>

Tick ==
  /\ clock < ClockHorizon
  /\ clock' = clock + 1
  /\ UNCHANGED <<mgrVars, notified, cbs, pollVars, histVars, stepBacks>>

\* Somebody sets the wall clock back.
StepBack ==
  /\ stepBacks < MaxStepBacks
  /\ clock > 0
  /\ clock' = clock - 1
  /\ stepBacks' = stepBacks + 1
  /\ UNCHANGED <<mgrVars, notified, cbs, pollVars, histVars>>

User ==
  \/ \E t \in Timers, ms \in Periods, r \in BOOLEAN : AddTimer(t, ms, r)
  \/ \E t \in Timers : Cancel(t)
  \/ \E t \in Timers : Refresh(t)
  \/ \E t \in Timers, ms \in Periods, f \in BOOLEAN : Reset(t, ms, f)
  \/ StoppingProbe

Poller ==
  \/ GetNextTimer
  \/ EpollWait
  \/ WakeDue
  \/ ListExpiredCb
  \/ DrainPipe

Next ==
  \/ User
  \/ Poller
  \/ Interrupted
  \/ WakeForIO
  \/ \E t \in Timers : RunCb(t)
  \/ Tick
  \/ StepBack

Spec == Init /\ [][Next]_vars

\* The poller's thread is scheduled, callbacks get their turn, time passes.
FairSpec ==
  /\ Spec
  /\ WF_vars(Poller)
  /\ WF_vars(Tick)
  /\ \A t \in Timers : WF_vars(RunCb(t))

-----------------------------------------------------------------------------
TypeOK ==
  /\ m_timers \subseteq Timers
  /\ m_tickled \in BOOLEAN
  /\ made \subseteq Timers
  /\ m_next \in [Timers -> Int]
  /\ m_ms \in [Timers -> Nat]
  /\ m_recurring \in [Timers -> BOOLEAN]
  /\ m_cb \in [Timers -> BOOLEAN]
  /\ clock \in Nat
  /\ notified \in BOOLEAN
  /\ cbs \in [Timers -> Nat]
  /\ pc \in {"loop", "wait", "asleep", "list", "drain"}
  /\ asked \in Nat
  /\ timeout \in Int
  /\ wakeAt \in Int
  /\ sawPipe \in BOOLEAN
  /\ started \in [Timers -> Nat]
  /\ cancelled \subseteq Timers
  /\ late \subseteq Timers
  /\ stepBacks \in Nat

\* A timer has a callback exactly while it is in the set.  Timer::cancel
\* erases find()'s result without comparing it with end() (timer.cpp:48-49):
\* this is what makes that safe, through any sequence of calls and expiries.
ArmedIffInSet == \A t \in Timers : m_cb[t] <=> t \in m_timers

\* The poller's time-out lets it sleep past the moment t is due.
SleepsPast(t) == timeout < 0 \/ (timeout > 0 /\ asked + timeout > m_next[t])

\* While the clock is never set back, a poller that waits sleeps past no timer but
\* those that were added or reset since it asked: refresh() moves a timer in the set
\* without telling anybody, and may, because it only moves it later.  The one
\* exception is a timer that was more than the largest int away, whose time-out is
\* narrowed before it is compared with MAX_TIMEOUT (iomanager.cpp:319).
OversleepsOnlyTheLate ==
  stepBacks = 0 /\ Waiting =>
    \A t \in m_timers : SleepsPast(t) => t \in late \/ m_next[t] > asked + IntMax

\* reset(ms, false) counts from the moment the timer was last started ("back
\* to that point in time as the start", timer.cpp:95): m_next and m_ms always
\* agree with that moment, over resets, refreshes and recurrences.
StartRemembered == \A t \in made : m_next[t] = started[t] + m_ms[t]

\* When cancel() of a one-shot timer returned true its callback neither runs
\* later nor waits in the run queue: the caller may free what it uses.
CancelledOneShotNeverRuns ==
  \A t \in cancelled : ~m_recurring[t] => cbs[t] = 0

\* listExpiredCb collects no timer before its due time and leaves no timer
\* that is due behind, whether it is due now or earlier.
CollectsExactlyTheDue ==
  [][pc = "list" /\ pc' = "drain" =>
       \A t \in m_timers : cbs'[t] # cbs[t] <=> clock >= m_next[t]]_vars

\* A timer that is due is eventually collected, or cancelled, or pushed back by the
\* user; no order of insertions and sleeps leaves it behind, although a poller that
\* sleeps is told of none.  But a poller whose next timer was more than the largest
\* int away may have asked epoll_wait to sleep for ever (iomanager.cpp:319).
DueIsCollected ==
  \A t \in Timers :
    (t \in m_timers /\ m_next[t] <= clock)
      ~> (t \notin m_timers \/ m_next[t] > clock \/ cbs[t] > 0 \/ timeout < 0)

-----------------------------------------------------------------------------
\* The inductive strengthening of ArmedIffInSet and CancelledOneShotNeverRuns:
\* an object that was never constructed has collected nothing, a cancelled
\* timer has lost its callback, an armed one-shot timer has not fired yet.
CancelInv ==
  /\ ArmedIffInSet
  /\ cancelled \subseteq made
  /\ \A t \in Timers :
       /\ t \notin made => ~m_cb[t] /\ cbs[t] = 0
       /\ t \in cancelled => ~m_cb[t]
       /\ t \in made /\ m_cb[t] /\ ~m_recurring[t] => cbs[t] = 0
  /\ CancelledOneShotNeverRuns

\* The inductive strengthening of OversleepsOnlyTheLate: no timer was started in
\* the future, so that refresh only moves a timer later.
SleepInv ==
  /\ m_timers \subseteq made
  /\ StartRemembered
  /\ stepBacks = 0 => \A t \in Timers : started[t] <= clock
  /\ OversleepsOnlyTheLate
=============================================================================
