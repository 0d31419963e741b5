------------------------- MODULE TimerManagerProofs -------------------------
(***************************************************************************)
(* Proofs about TimerManager, for any number of timers, any periods and    *)
(* any bounds.                                                             *)
(***************************************************************************)
EXTENDS TimerManager, TLAPS

\* Whatever free address now_timer gets, what lower_bound() and the loop behind it
\* cut off are the timers that are due.
LEMMA ExpiredIsDue ==
  ASSUME TypeOK, NEW now \in Nat, NEW a \in Addresses, a \notin m_timers
  PROVE  Expired(now, a) = {t \in m_timers : m_next[t] <= now}
<1> USE TimerAssumption DEF TypeOK
<1> DEFINE nx    == [t \in Timers \cup {a} |-> IF t = a THEN now ELSE m_next[t]]
           below == {t \in m_timers : Before(t, a, nx)}
           rest  == m_timers \ below
<1>1. \A t \in m_timers : t \in Nat /\ t # a /\ m_next[t] \in Int
  OBVIOUS
<1>2. \A t \in m_timers : nx[t] = m_next[t]
  OBVIOUS
<1>3. nx[a] = now
  OBVIOUS
<1>4. \A t \in m_timers :
        t \in below <=> m_next[t] < now \/ (m_next[t] = now /\ t < a)
  BY <1>2, <1>3 DEF Before
<1>5. Expired(now, a) = below \cup {t \in rest :
        \A s \in rest : s = t \/ Before(s, t, m_next) => m_next[s] = now}
  BY DEF Expired
<1> HIDE DEF nx, below
<1>6. ASSUME NEW t \in m_timers, m_next[t] <= now PROVE t \in Expired(now, a)
  <2>1. CASE t \in below
    BY <1>5, <2>1
  <2>2. CASE t \notin below
    <3>1. m_next[t] = now
      BY <1>1, <1>4, <1>6, <2>2
    <3>2. ASSUME NEW s \in rest, s = t \/ Before(s, t, m_next) PROVE m_next[s] = now
      <4>1. m_next[s] <= now
        BY <1>1, <3>1, <3>2 DEF Before
      <4>2. ~(m_next[s] < now)
        BY <1>4, <3>2
      <4> QED BY <1>1, <4>1, <4>2
    <3> QED BY <1>5, <2>2, <3>2
  <2> QED BY <2>1, <2>2
<1>7. ASSUME NEW t \in Expired(now, a) PROVE t \in m_timers /\ m_next[t] <= now
  <2>1. t \in below \/ (t \in rest /\ m_next[t] = now)
    BY <1>5, <1>7
  <2>2. t \in m_timers
    BY <2>1 DEF below
  <2> QED BY <1>1, <1>4, <2>1, <2>2
<1> QED BY <1>6, <1>7

\* What listExpiredCb does, in terms of the timers that are due.
LEMMA ListExpired ==
  ASSUME TypeOK, ListExpiredCb
  PROVE  LET E == {t \in m_timers : m_next[t] <= clock} IN
         /\ cbs' = [t \in Timers |-> IF t \in E THEN cbs[t] + 1 ELSE cbs[t]]
         /\ m_next' = [t \in Timers |->
              IF t \in E /\ m_recurring[t] THEN clock + m_ms[t] ELSE m_next[t]]
         /\ started' = [t \in Timers |->
              IF t \in E /\ m_recurring[t] THEN clock ELSE started[t]]
         /\ m_timers' = (m_timers \ E) \cup {t \in E : m_recurring[t]}
         /\ m_cb' = CbAfterListing(E)
         /\ pc' = "drain"
         /\ UNCHANGED <<m_tickled, made, m_ms, m_recurring, clock, notified, asked,
                        timeout, wakeAt, sawPipe, cancelled, late, stepBacks>>
<1>1. PICK a \in Addresses \ m_timers : ListExpiredCb!(a)
  BY Zenon DEF ListExpiredCb
<1>2. Expired(clock, a) = {t \in m_timers : m_next[t] <= clock}
  BY ExpiredIsDue DEF TypeOK
<1> QED BY <1>1, <1>2, Zenon

\* The type invariant is inductive.
LEMMA TypeInductive == TypeOK /\ [Next]_vars => TypeOK'
<1> SUFFICES ASSUME TypeOK, [Next]_vars PROVE TypeOK'
  OBVIOUS
<1> USE TimerAssumption DEF TypeOK
<1>1. ASSUME NEW t \in Timers, NEW ms \in Periods, NEW r \in BOOLEAN,
             AddTimer(t, ms, r)
      PROVE  TypeOK'
  BY <1>1 DEF AddTimer, Insert, AtFront, Wakes, LateAfter, pollVars
<1>2. ASSUME NEW t \in Timers, Cancel(t) PROVE TypeOK'
  BY <1>2 DEF Cancel, Erased, pollVars
<1>3. ASSUME NEW t \in Timers, Refresh(t) PROVE TypeOK'
  BY <1>3 DEF Refresh, Erased, pollVars
<1>4. ASSUME NEW t \in Timers, NEW ms \in Periods, NEW f \in BOOLEAN,
             Reset(t, ms, f)
      PROVE  TypeOK'
  BY <1>4 DEF Reset, Restart, Insert, Erased, AtFront, Wakes, LateAfter, pollVars
<1>5. CASE StoppingProbe
  BY <1>5 DEF StoppingProbe, pollVars, histVars
<1>6. CASE GetNextTimer
  <2>1. \A x \in Int : EpollTimeout(x) \in Int
    BY DEF EpollTimeout, ToInt
  <2>2. \A t \in m_timers : TimeUntil(t) \in Int
    BY DEF TimeUntil
  <2>3. timeout' \in Int
    BY <1>6, <2>1, <2>2 DEF GetNextTimer, NoTimer
  <2> QED BY <1>6, <2>3 DEF GetNextTimer, histVars
<1>7. CASE EpollWait
  BY <1>7 DEF EpollWait, WakeTime, Forever, mgrVars, histVars
<1>8. CASE Interrupted
  BY <1>8 DEF Interrupted, WakeTime, Forever, mgrVars, histVars
<1>9. CASE WakeDue \/ WakeForIO
  <2>1. /\ pc' = "list" /\ asked' = 0 /\ timeout' = 0 /\ wakeAt' = 0 /\ late' = {}
        /\ sawPipe' = notified
    BY <1>9 DEF WakeDue, WakeForIO, Return
  <2>2. UNCHANGED <<m_timers, m_tickled, made, m_next, m_ms, m_recurring, m_cb,
                    clock, notified, cbs, started, cancelled, stepBacks>>
    BY <1>9 DEF WakeDue, WakeForIO, Return, mgrVars
  <2> QED BY <2>1, <2>2
<1>10. CASE ListExpiredCb
  <2>1. m_cb' \in [Timers -> BOOLEAN]
    BY <1>10, ListExpired, Zenon DEF CbAfterListing
  <2>2. m_timers' \subseteq Timers
    BY <1>10, ListExpired
  <2>3. /\ cbs' \in [Timers -> Nat]
        /\ started' \in [Timers -> Nat]
        /\ m_next' \in [Timers -> Int]
    BY <1>10, ListExpired
  <2>4. /\ pc' = "drain"
        /\ UNCHANGED <<m_tickled, made, m_ms, m_recurring, clock, notified, asked,
                       timeout, wakeAt, sawPipe, cancelled, late, stepBacks>>
    BY <1>10, ListExpired
  <2> QED BY <2>1, <2>2, <2>3, <2>4
<1>11. CASE DrainPipe
  <2>1. notified' \in BOOLEAN /\ sawPipe' \in BOOLEAN
    BY <1>11, Zenon DEF DrainPipe
  <2>2. pc' = "loop"
    BY <1>11 DEF DrainPipe
  <2>3. UNCHANGED <<m_timers, m_tickled, made, m_next, m_ms, m_recurring, m_cb, clock,
                    cbs, asked, timeout, wakeAt, started, cancelled, late, stepBacks>>
    BY <1>11 DEF DrainPipe, mgrVars, histVars
  <2> QED BY <2>1, <2>2, <2>3
<1>12. ASSUME NEW t \in Timers, RunCb(t) PROVE TypeOK'
  BY <1>12 DEF RunCb, mgrVars, pollVars, histVars
<1>13. CASE Tick
  BY <1>13 DEF Tick, mgrVars, pollVars, histVars
<1>14. CASE StepBack
  BY <1>14 DEF StepBack, mgrVars, pollVars, histVars
<1>15. CASE UNCHANGED vars
  BY <1>15 DEF vars
<1> QED
  BY <1>1, <1>2, <1>3, <1>4, <1>5, <1>6, <1>7, <1>8, <1>9, <1>10, <1>11,
     <1>12, <1>13, <1>14, <1>15 DEF Next, User, Poller

\* Every state of the timers and of the poller is well typed.
THEOREM TypeCorrect == Spec => []TypeOK
<1>1. Init => TypeOK
  <2> SUFFICES ASSUME Init PROVE TypeOK
    OBVIOUS
  <2>1. /\ m_recurring \in [Timers -> BOOLEAN]
        /\ m_cb \in [Timers -> BOOLEAN]
        /\ m_tickled \in BOOLEAN /\ notified \in BOOLEAN /\ sawPipe \in BOOLEAN
    BY Zenon DEF Init
  <2>2. /\ m_next \in [Timers -> Int]
        /\ m_ms \in [Timers -> Nat]
        /\ cbs \in [Timers -> Nat]
        /\ started \in [Timers -> Nat]
    BY DEF Init
  <2> QED BY <2>1, <2>2 DEF Init, TypeOK
<1> QED BY <1>1, TypeInductive, PTL DEF Spec

-----------------------------------------------------------------------------
\* Cancellation: no step can leave a timer with a callback outside the set, or
\* queue a callback of a one-shot timer that cancel() has taken back.
LEMMA CancelInductive == TypeOK /\ CancelInv /\ [Next]_vars => CancelInv'
<1> SUFFICES ASSUME TypeOK, CancelInv, [Next]_vars PROVE CancelInv'
  OBVIOUS
<1> USE DEF CancelInv, ArmedIffInSet, CancelledOneShotNeverRuns, TypeOK
<1>1. ASSUME NEW t \in Timers, NEW ms \in Periods, NEW r \in BOOLEAN,
             AddTimer(t, ms, r)
      PROVE  CancelInv'
  BY <1>1 DEF AddTimer, Insert
<1>2. ASSUME NEW t \in Timers, Cancel(t) PROVE CancelInv'
  BY <1>2 DEF Cancel, Erased
<1>3. ASSUME NEW t \in Timers, Refresh(t) PROVE CancelInv'
  BY <1>3 DEF Refresh, Erased
<1>4. ASSUME NEW t \in Timers, NEW ms \in Periods, NEW f \in BOOLEAN,
             Reset(t, ms, f)
      PROVE  CancelInv'
  BY <1>4 DEF Reset, Insert, Erased
<1>5. CASE ListExpiredCb
  <2> DEFINE E == {t \in m_timers : m_next[t] <= clock}
  <2>1. /\ m_timers' = (m_timers \ E) \cup {t \in E : m_recurring[t]}
        /\ \A t \in Timers : t \in E => t \in m_timers
        /\ UNCHANGED <<made, m_recurring, cancelled>>
    BY <1>5, ListExpired
  <2>2. \A t \in Timers : m_cb'[t] = IF t \in E /\ ~m_recurring[t] THEN FALSE ELSE m_cb[t]
    BY <1>5, ListExpired, Zenon DEF CbAfterListing
  <2>3. \A t \in Timers : cbs'[t] = IF t \in E THEN cbs[t] + 1 ELSE cbs[t]
    BY <1>5, ListExpired
  <2> HIDE DEF E
  <2>4. ArmedIffInSet'
    BY <2>1, <2>2
  <2>5. ASSUME NEW t \in Timers
        PROVE  /\ t \notin made' => ~m_cb'[t] /\ cbs'[t] = 0
               /\ t \in cancelled' => ~m_cb'[t]
               /\ t \in made' /\ m_cb'[t] /\ ~m_recurring'[t] => cbs'[t] = 0
    BY <2>1, <2>2, <2>3
  <2>6. CancelledOneShotNeverRuns'
    BY <2>1, <2>3
  <2> QED BY <2>1, <2>4, <2>5, <2>6
<1>6. ASSUME NEW t \in Timers, RunCb(t) PROVE CancelInv'
  BY <1>6 DEF RunCb, mgrVars, histVars
<1>7. CASE UNCHANGED <<m_timers, made, m_recurring, m_cb, cbs, cancelled>>
  BY <1>7
<1>8. CASE StoppingProbe \/ GetNextTimer \/ EpollWait \/ Interrupted \/ WakeDue
           \/ WakeForIO \/ DrainPipe \/ Tick \/ StepBack \/ UNCHANGED vars
  <2>1. UNCHANGED <<m_timers, made, m_recurring, m_cb, cbs, cancelled>>
    BY <1>8 DEF StoppingProbe, GetNextTimer, EpollWait, Interrupted, WakeDue,
       WakeForIO, Return, DrainPipe, Tick, StepBack, vars, mgrVars, histVars
  <2> QED BY <1>7, <2>1
<1> QED
  BY <1>1, <1>2, <1>3, <1>4, <1>5, <1>6, <1>8 DEF Next, User, Poller

\* The cancellation invariant holds of every reachable state.
LEMMA CancelInvariant == Spec => [](TypeOK /\ CancelInv)
<1>1. Init => CancelInv
  BY DEF Init, CancelInv, ArmedIffInSet, CancelledOneShotNeverRuns
<1> QED BY <1>1, TypeCorrect, CancelInductive, PTL DEF Spec

\* erase(find()) in Timer::cancel never gets end(), for any number of timers
\* and any sequence of calls.
THEOREM ArmedIffInSetHolds == Spec => []ArmedIffInSet
<1>1. CancelInv => ArmedIffInSet
  BY DEF CancelInv
<1> QED BY <1>1, CancelInvariant, PTL

\* A one-shot timer whose cancel() returned true never runs its callback.
THEOREM CancelledOneShotNeverRunsHolds == Spec => []CancelledOneShotNeverRuns
<1>1. CancelInv => CancelledOneShotNeverRuns
  BY DEF CancelInv
<1> QED BY <1>1, CancelInvariant, PTL

-----------------------------------------------------------------------------
\* How long the poller sleeps.

\* No step makes a waiting poller sleep past a timer that it knew of when it asked.
LEMMA SleepInductive == TypeOK /\ SleepInv /\ [Next]_vars => SleepInv'
<1> SUFFICES ASSUME TypeOK, SleepInv, [Next]_vars PROVE SleepInv'
  OBVIOUS
<1> USE TimerAssumption DEF TypeOK, SleepInv, StartRemembered
<1>1. ASSUME NEW t \in Timers, NEW ms \in Periods, NEW r \in BOOLEAN,
             AddTimer(t, ms, r)
      PROVE  SleepInv'
  <2>1. /\ m_timers' = m_timers \cup {t} /\ made' = made \cup {t}
        /\ m_next' = [m_next EXCEPT ![t] = clock + ms]
        /\ m_ms' = [m_ms EXCEPT ![t] = ms]
        /\ started' = [started EXCEPT ![t] = clock]
        /\ late' = IF Waiting THEN late \cup {t} ELSE late
        /\ UNCHANGED <<clock, pc, asked, timeout, stepBacks>>
    BY <1>1 DEF AddTimer, Insert, LateAfter, pollVars
  <2>2. OversleepsOnlyTheLate'
    BY <2>1 DEF OversleepsOnlyTheLate, SleepsPast, Waiting
  <2> QED BY <2>1, <2>2
<1>2. ASSUME NEW t \in Timers, Cancel(t) PROVE SleepInv'
  BY <1>2 DEF Cancel, Erased, OversleepsOnlyTheLate, SleepsPast, Waiting, pollVars
<1>3. ASSUME NEW t \in Timers, Refresh(t) PROVE SleepInv'
  <2>1. /\ m_timers' = m_timers /\ t \in made
        /\ m_next' = [m_next EXCEPT ![t] = clock + m_ms[t]]
        /\ started' = [started EXCEPT ![t] = clock]
        /\ UNCHANGED <<made, m_ms, clock, late, pc, asked, timeout, stepBacks>>
    BY <1>3 DEF Refresh, Erased, pollVars
  <2>2. stepBacks = 0 => \A u \in Timers : m_next[u] <= m_next'[u]
    BY <2>1
  <2>3. OversleepsOnlyTheLate'
    BY <2>1, <2>2 DEF OversleepsOnlyTheLate, SleepsPast, Waiting
  <2> QED BY <2>1, <2>3
<1>4. ASSUME NEW t \in Timers, NEW ms \in Periods, NEW f \in BOOLEAN,
             Reset(t, ms, f)
      PROVE  SleepInv'
  <2>1. /\ m_timers' = m_timers /\ t \in made /\ t \in m_timers
        /\ m_next' = [m_next EXCEPT ![t] = Restart(t, ms, f) + ms]
        /\ m_ms' = [m_ms EXCEPT ![t] = ms]
        /\ started' = [started EXCEPT ![t] = IF f THEN clock ELSE @]
        /\ late' = IF Waiting THEN late \cup {t} ELSE late
        /\ UNCHANGED <<made, clock, pc, asked, timeout, stepBacks>>
    BY <1>4 DEF Reset, Insert, Erased, LateAfter, pollVars
  <2>2. Restart(t, ms, f) = started'[t] /\ started'[t] \in Nat
    BY <2>1 DEF Restart
  <2>3. OversleepsOnlyTheLate'
    BY <2>1 DEF OversleepsOnlyTheLate, SleepsPast, Waiting
  <2> QED BY <2>1, <2>2, <2>3
<1>5. CASE GetNextTimer
  <2>1. /\ asked' = clock
        /\ UNCHANGED <<m_timers, made, m_next, m_ms, clock, started, stepBacks>>
    BY <1>5 DEF GetNextTimer, histVars
  <2>2. ASSUME NEW u \in m_timers, SleepsPast(u)' PROVE m_next[u] > clock + IntMax
    <3>1. PICK t \in m_timers :
            IsBegin(t) /\ timeout' = EpollTimeout(TimeUntil(t))
      BY <1>5 DEF GetNextTimer
    <3>2. m_next[t] <= m_next[u]
      BY <3>1 DEF IsBegin, Before
    <3>3. ASSUME m_next[t] - clock <= IntMax
          PROVE  timeout' >= 0 /\ (timeout' = 0 \/ clock + timeout' <= m_next[t])
      <4>1. TimeUntil(t) \in 0 .. IntMax
            /\ (TimeUntil(t) = 0 \/ TimeUntil(t) = m_next[t] - clock)
        BY <3>3 DEF TimeUntil
      <4>2. \/ timeout' = TimeUntil(t)
            \/ timeout' = MaxTimeout /\ MaxTimeout <= TimeUntil(t)
        BY <3>1, <4>1 DEF EpollTimeout, ToInt, NoTimer
      <4> QED BY <4>1, <4>2
    <3>4. timeout' < 0 \/ (timeout' > 0 /\ clock + timeout' > m_next[u])
      BY <2>1, <2>2 DEF SleepsPast
    <3>5. timeout' \in Int
      <4>1. \A x \in Int : EpollTimeout(x) \in Int
        BY DEF EpollTimeout, ToInt
      <4> QED BY <3>1, <4>1 DEF TimeUntil
    <3> QED BY <3>2, <3>3, <3>4, <3>5
  <2>3. OversleepsOnlyTheLate'
    BY <2>1, <2>2 DEF OversleepsOnlyTheLate
  <2> QED BY <2>1, <2>3
<1>6. CASE ListExpiredCb
  <2>1. /\ pc' = "drain" /\ UNCHANGED <<made, m_ms, clock, stepBacks>>
        /\ m_timers' \subseteq m_timers
    BY <1>6, ListExpired
  <2>2. \A t \in Timers : \/ m_next'[t] = m_next[t] /\ started'[t] = started[t]
                          \/ m_next'[t] = clock + m_ms[t] /\ started'[t] = clock
    BY <1>6, ListExpired
  <2>3. OversleepsOnlyTheLate'
    BY <2>1 DEF OversleepsOnlyTheLate, Waiting
  <2> QED BY <2>1, <2>2, <2>3
<1>7. CASE Tick
  BY <1>7 DEF Tick, OversleepsOnlyTheLate, SleepsPast, Waiting, mgrVars, pollVars, histVars
<1>8. CASE StepBack
  BY <1>8 DEF StepBack, OversleepsOnlyTheLate, mgrVars, pollVars, histVars
<1>9. CASE DrainPipe \/ WakeDue \/ WakeForIO
  BY <1>9 DEF DrainPipe, WakeDue, WakeForIO, Return, OversleepsOnlyTheLate, Waiting,
     mgrVars, histVars
<1>10. CASE \/ StoppingProbe \/ EpollWait \/ Interrupted \/ UNCHANGED vars
            \/ \E t \in Timers : RunCb(t)
  <2>1. /\ UNCHANGED <<m_timers, made, m_next, m_ms, clock, asked, timeout, started,
                       late, stepBacks>>
        /\ Waiting' = Waiting
    BY <1>10 DEF StoppingProbe, EpollWait, Interrupted, RunCb, Waiting, vars, mgrVars,
       pollVars, histVars
  <2>2. OversleepsOnlyTheLate'
    BY <2>1 DEF OversleepsOnlyTheLate, SleepsPast
  <2> QED BY <2>1, <2>2
<1> QED
  BY <1>1, <1>2, <1>3, <1>4, <1>5, <1>6, <1>7, <1>8, <1>9, <1>10
     DEF Next, User, Poller

\* Until the clock is set back the poller sleeps past no timer that was in the set
\* when it asked, refreshed or not, unless that timer is further away than the
\* largest int: for any number of timers, any periods and any MAX_TIMEOUT.
THEOREM OversleepsOnlyTheLateHolds == Spec => []OversleepsOnlyTheLate
<1>1. Init => SleepInv
  <2> SUFFICES ASSUME Init PROVE SleepInv
    OBVIOUS
  <2>1. m_timers \subseteq made /\ pc = "loop"
    BY DEF Init
  <2>2. \A t \in Timers : started[t] <= clock
    BY TimerAssumption DEF Init
  <2>3. StartRemembered
    BY Zenon DEF Init, StartRemembered
  <2>4. OversleepsOnlyTheLate
    BY <2>1 DEF OversleepsOnlyTheLate, Waiting
  <2> QED BY <2>1, <2>2, <2>3, <2>4 DEF SleepInv
<1>2. SleepInv => OversleepsOnlyTheLate
  BY DEF SleepInv
<1> QED BY <1>1, <1>2, SleepInductive, TypeCorrect, PTL DEF Spec

-----------------------------------------------------------------------------
\* m_next - m_ms is the moment a timer was last started, for a clock that may be set
\* back and for any sequence of resets, refreshes and recurrences: what reset(ms, false)
\* computes as its start is that moment.
THEOREM StartRememberedHolds == Spec => []StartRemembered
<1>1. Init => StartRemembered
  BY DEF Init, StartRemembered
<1>2. ASSUME TypeOK, StartRemembered, [Next]_vars PROVE StartRemembered'
  <2> USE <1>2, TimerAssumption DEF TypeOK, StartRemembered
  <2>1. ASSUME NEW t \in Timers, NEW ms \in Periods, NEW r \in BOOLEAN, AddTimer(t, ms, r)
        PROVE  StartRemembered'
    BY <2>1 DEF AddTimer
  <2>2. ASSUME NEW t \in Timers, Refresh(t) PROVE StartRemembered'
    BY <2>2 DEF Refresh
  <2>3. ASSUME NEW t \in Timers, NEW ms \in Periods, NEW f \in BOOLEAN, Reset(t, ms, f)
        PROVE  StartRemembered'
    <3>1. /\ m_next' = [m_next EXCEPT ![t] = Restart(t, ms, f) + ms] /\ t \in made
          /\ m_ms' = [m_ms EXCEPT ![t] = ms] /\ made' = made
          /\ started' = [started EXCEPT ![t] = IF f THEN clock ELSE @]
      BY <2>3 DEF Reset
    <3>2. Restart(t, ms, f) = started'[t]
      BY <3>1 DEF Restart
    <3> QED BY <3>1, <3>2
  <2>4. CASE ListExpiredCb
    <3>1. UNCHANGED <<made, m_ms>>
      BY <1>2, <2>4, ListExpired
    <3>2. \A t \in Timers : \/ m_next'[t] = m_next[t] /\ started'[t] = started[t]
                            \/ m_next'[t] = clock + m_ms[t] /\ started'[t] = clock
      BY <1>2, <2>4, ListExpired
    <3> QED BY <3>1, <3>2
  <2>5. CASE UNCHANGED <<made, m_next, m_ms, started>>
    BY <2>5
  <2>6. CASE \/ \E t \in Timers : Cancel(t) \/ RunCb(t)
             \/ StoppingProbe \/ GetNextTimer \/ EpollWait \/ Interrupted \/ WakeDue
             \/ WakeForIO \/ DrainPipe \/ Tick \/ StepBack \/ UNCHANGED vars
    <3>1. UNCHANGED <<made, m_next, m_ms, started>>
      BY <2>6 DEF Cancel, RunCb, StoppingProbe, GetNextTimer, EpollWait, Interrupted, WakeDue,
         WakeForIO, Return, DrainPipe, Tick, StepBack, vars, mgrVars, histVars
    <3> QED BY <2>5, <3>1
  <2> QED BY <1>2, <2>1, <2>2, <2>3, <2>4, <2>6 DEF Next, User, Poller
<1> QED BY <1>1, <1>2, TypeCorrect, PTL DEF Spec

\* What lower_bound() and the loop over the ties behind it cut off are the timers that
\* are due and no others, whatever the set holds and whatever address the temporary
\* now_timer gets.
THEOREM CollectsExactlyTheDueHolds == Spec => CollectsExactlyTheDue
<1>1. ASSUME TypeOK, [Next]_vars
      PROVE  [pc = "list" /\ pc' = "drain" =>
                \A t \in m_timers : cbs'[t] # cbs[t] <=> clock >= m_next[t]]_vars
  <2> SUFFICES ASSUME Next, pc = "list", pc' = "drain", NEW t \in m_timers
               PROVE  cbs'[t] # cbs[t] <=> clock >= m_next[t]
    BY <1>1
  <2>1. ListExpiredCb
    BY DEF Next, User, Poller, AddTimer, Cancel, Refresh, Reset, StoppingProbe, GetNextTimer,
       EpollWait, WakeDue, WakeForIO, Return, DrainPipe, Interrupted, RunCb, Tick, StepBack,
       pollVars
  <2>2. t \in Timers /\ cbs[t] \in Nat /\ clock \in Nat /\ m_next[t] \in Int
    BY <1>1 DEF TypeOK
  <2>3. cbs'[t] = IF m_next[t] <= clock THEN cbs[t] + 1 ELSE cbs[t]
    BY <1>1, <2>1, <2>2, ListExpired
  <2> QED BY <2>2, <2>3
<1> QED BY <1>1, TypeCorrect, PTL DEF Spec, CollectsExactlyTheDue
=============================================================================
