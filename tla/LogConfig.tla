----------------------------- MODULE LogConfig -----------------------------
(***************************************************************************)
(* The loggers of fatdog/log.cpp and the variable "logs" that configures   *)
(* them.  LogIniter's listener brings the loggers to a new configuration   *)
(* logger by logger, while other threads log through them: a logger        *)
(* without appenders gets one for standard output when it logs.            *)
(*                                                                         *)
(* A configuration is a function from names to definitions.  Logger::log   *)
(* walks over the appenders without the lock; a walk that meets a change   *)
(* of the vector is undefined and left out.  Of an event only its level is *)
(* modelled.                                                               *)
(***************************************************************************)
EXTENDS Config, LogFormatter, SequencesExt

CONSTANTS
  LogNames,    \* names of loggers, in the order of a std::set
  Root,        \* the name "root"
  Yamls,       \* values of the key logs: sequences of entries
  Threads,     \* threads that log
  EventLevels,
  Default,     \* the default pattern
  Made,        \* pattern -> the items it was put together from, of the right ones
  NoLogger,
  MaxLoads,    \* bound: loads of "logs"
  MaxLogs      \* bound: events

VARIABLES
  m_val,       \* of g_log_defines: name -> definition, of the names it has
  m_loggers,   \* name -> [level, formatter, appenders] or NoLogger
  job,         \* the listener: loggers and appenders to do, the new value
  late,        \* threads that found a logger empty and are about to add an appender
  loaded,      \* history: the values loaded, in their order
  died,        \* a null pointer was dereferenced
  loads, logs

logVars == <<m_val, m_loggers, job, late, loaded, died, loads, logs>>
vars == <<logVars, configVars>>

Names == ToSet(LogNames)
AppenderDefs == [type : Nat, level : Nat, formatter : Seq(STRING)]
Entries == [name : Names, level : Nat, formatter : Seq(STRING), appenders : Seq(AppenderDefs),
            complete : BOOLEAN]
Appenders == [type : Nat, level : Nat, formatter : Seq(STRING), given : BOOLEAN]
Loggers == [level : Nat, formatter : Seq(STRING), appenders : Seq(Appenders)]

ASSUME LogAssumption ==
  /\ LogNames \in Seq(STRING) /\ Root \in Names
  /\ \A y \in Yamls : y \in Seq(Entries)
  /\ NoLogger \notin Loggers

\* Made has the patterns in use that LogFormatter takes, and their items.
Patterns ==
  UNION {{e.formatter} \cup {a.formatter : a \in ToSet(e.appenders)} : e \in UNION {ToSet(y) : y \in Yamls}}

ASSUME MadeAssumption ==
  /\ Default \in DOMAIN Made /\ <<>> \notin DOMAIN Made
  /\ \A f \in DOMAIN Made : f \in Seq(STRING) /\ ~init(f).isError /\ init(f).items = Made[f]
  /\ \A f \in Patterns \ DOMAIN Made : f = <<>> \/ init(f).isError

\* The elements of s that are in S, in their order.
Only(s, S) ==
  LET upto[k \in 0 .. Len(s)] ==
        IF k = 0 THEN <<>> ELSE IF s[k] \in S THEN Append(upto[k - 1], s[k]) ELSE upto[k - 1]
  IN  upto[Len(s)]

NoDefines == [n \in {} |-> NoLogger]
INFO == 2
UNKNOWN == 0
Idle == [runs |-> FALSE, todo |-> <<>>, adds |-> <<>>, new |-> NoDefines]

\* Logger::Logger; an appender is given if the configuration names it.
NewLogger == [level |-> INFO, formatter |-> Default, appenders |-> <<>>]
Stdout(l) == [type |-> 2, level |-> INFO, formatter |-> l.formatter, given |-> FALSE]

Init ==
  /\ ConfigInit
  /\ m_val = NoDefines
  /\ m_loggers = [n \in Names |->
       IF n = Root THEN [NewLogger EXCEPT !.appenders = <<Stdout(NewLogger)>>] ELSE NoLogger]
  /\ job = Idle /\ late = [t \in Threads |-> NoLogger]
  /\ loaded = <<NoDefines>> /\ died = FALSE /\ loads = 0 /\ logs = 0

-----------------------------------------------------------------------------
\* Mutated forms of the definitions below, one plausible slip each.
MutSameDefine(d, e) == d.level = e.level
MutCleared(l) == l

-----------------------------------------------------------------------------
\* LoggerManager::getLogger.
getLogger(ls, n) == IF ls[n] = NoLogger THEN [ls EXCEPT ![n] = NewLogger] ELSE ls

\* Logger::addAppender: without a formatter it gets the logger's.
addAppender(l, a) ==
  [l EXCEPT !.appenders = Append(@, [a EXCEPT !.formatter = IF @ = <<>> THEN l.formatter ELSE @])]

Cleared(l) == [l EXCEPT !.appenders = <<>>]

\* A pattern that is set if LogFormatter takes it.
Accepted(pattern, old) == IF pattern = <<>> \/ init(pattern).isError THEN old ELSE pattern

\* An event of this level through logger n, by the thread that changes the loggers.
Logged(ls, n, level) ==
  IF ls[n] # NoLogger /\ ls[n].level <= level /\ ls[n].appenders = <<>>
  THEN [ls EXCEPT ![n].appenders = <<Stdout(ls[n])>>] ELSE ls

\* operator== of LogDefine compares the appenders of d with themselves.
SameDefine(d, e) == d.level = e.level /\ d.formatter = e.formatter

\* std::set insert: of two entries with one name the first stays.
DefinesOf(entries) ==
  LET First(n) == CHOOSE i \in 1 .. Len(entries) :
                    entries[i].name = n /\ \A k \in 1 .. i - 1 : entries[k].name # n
  IN [n \in {entries[i].name : i \in 1 .. Len(entries)} |-> entries[First(n)]]

SameValue(v, w) == DOMAIN v = DOMAIN w /\ \A n \in DOMAIN v : SameDefine(v[n], w[n])

\* The names of a value, in their order.
InOrder(S) == Only(LogNames, S)

\* fromString and setValue of "logs": an entry that lacks a key makes the conversion
\* throw, which is reported through the root logger; an equal value is no change; else
\* the listener starts, with a message to the root logger.
LoadLogs(y) ==
  LET v == DefinesOf(y)
      refused == \E i \in 1 .. Len(y) : ~y[i].complete
  IN /\ job = Idle /\ loads < MaxLoads
     /\ loads' = loads + 1
     /\ loaded' = IF refused THEN loaded ELSE Append(loaded, v)
     /\ m_loggers' = IF ~refused /\ SameValue(v, m_val) THEN m_loggers
                     ELSE Logged(m_loggers, Root, INFO)
     /\ job' = IF refused \/ SameValue(v, m_val) THEN job
               ELSE [runs |-> TRUE,
                     todo |-> InOrder(DOMAIN v) \o InOrder(DOMAIN m_val \ DOMAIN v),
                     adds |-> <<>>, new |-> v]
     /\ UNCHANGED <<m_val, late, died, logs>>

\* The next logger of the listener.  A definition that did not change leaves the
\* pointer to the logger null.
NextLogger ==
  LET n == Head(job.todo)
      ls == getLogger(m_loggers, n)
      d == job.new[n]
      kept == n \in DOMAIN job.new /\ n \in DOMAIN m_val /\ SameDefine(d, m_val[n])
  IN /\ job # Idle /\ job.adds = <<>> /\ job.todo # <<>>
     /\ died' = kept
     /\ CASE kept -> UNCHANGED <<m_loggers, job>>
          [] ~kept /\ n \in DOMAIN job.new ->
               /\ m_loggers' = [ls EXCEPT ![n] =
                    Cleared([@ EXCEPT !.level = d.level,
                                      !.formatter = Accepted(d.formatter, ls[n].formatter)])]
               /\ job' = IF d.appenders = <<>> THEN [job EXCEPT !.todo = Tail(@)]
                         ELSE [job EXCEPT !.adds = d.appenders]
          [] OTHER ->
               /\ m_loggers' = [ls EXCEPT ![n] = Cleared([@ EXCEPT !.level = UNKNOWN])]
               /\ job' = [job EXCEPT !.todo = Tail(@)]
     /\ UNCHANGED <<m_val, late, loaded, loads, logs>>

\* The next appender of the logger at hand; an unknown type leaves the pointer null,
\* a wrong formatter is reported through the root logger.
NextAppender ==
  LET n == Head(job.todo)
      a == Head(job.adds)
      wrong == a.formatter # <<>> /\ init(a.formatter).isError
      ls == IF wrong THEN Logged(m_loggers, Root, INFO) ELSE m_loggers
      ap == [type |-> a.type, level |-> a.level, formatter |-> Accepted(a.formatter, <<>>),
             given |-> TRUE]
  IN /\ job # Idle /\ job.adds # <<>>
     /\ died' = (a.type = 0)
     /\ IF a.type = 0 THEN UNCHANGED <<m_loggers, job>>
        ELSE /\ m_loggers' = [ls EXCEPT ![n] = addAppender(@, ap)]
             /\ job' = [job EXCEPT !.adds = Tail(@),
                                   !.todo = IF Len(job.adds) = 1 THEN Tail(@) ELSE @]
     /\ UNCHANGED <<m_val, late, loaded, loads, logs>>

\* The listener returns and setValue assigns the value.
Assign ==
  /\ job # Idle /\ job.todo = <<>>
  /\ m_val' = job.new /\ job' = Idle
  /\ UNCHANGED <<m_loggers, late, loaded, died, loads, logs>>

\* A thread gets a logger by its name and logs: an empty logger is found empty here,
\* and gets its appender in a step of its own.
Log(t, n, level) ==
  LET ls == getLogger(m_loggers, n)
  IN /\ late[t] = NoLogger /\ logs < MaxLogs
     /\ logs' = logs + 1
     /\ m_loggers' = ls
     /\ late' = IF ls[n].level <= level /\ ls[n].appenders = <<>>
                THEN [late EXCEPT ![t] = n] ELSE late
     /\ UNCHANGED <<m_val, job, loaded, died, loads>>

LogAdds(t) ==
  LET n == late[t]
  IN /\ n # NoLogger
     /\ m_loggers' = [m_loggers EXCEPT ![n].appenders = Append(@, Stdout(m_loggers[n]))]
     /\ late' = [late EXCEPT ![t] = NoLogger]
     /\ UNCHANGED <<m_val, job, loaded, died, loads, logs>>

LogNext ==
  \/ \E y \in Yamls : LoadLogs(y)
  \/ NextLogger
  \/ NextAppender
  \/ Assign
  \/ \E t \in Threads, n \in Names, level \in EventLevels : Log(t, n, level)
  \/ \E t \in Threads : LogAdds(t)

\* Variables and listeners change in the thread that loads, not during a load.
Next ==
  \/ ~died /\ LogNext /\ UNCHANGED configVars
  \/ ~died /\ job = Idle /\ ConfigNext /\ UNCHANGED logVars

Spec == Init /\ [][Next]_vars

-----------------------------------------------------------------------------
\* The appenders of a logger that the configuration gave it.
Given(l) == Only(l.appenders, {a \in Appenders : a.given})

\* Between two loads every logger stands as the value of "logs" says: its level and
\* its appenders with their levels and formatters, in their order, and nothing else
\* but appenders of threads that found it empty; a logger without a definition has
\* no others.  A pattern in use writes the items it was put together from.
LoggersFollowConfig ==
  job = Idle /\ ~died =>
    \A n \in {x \in Names : m_loggers[x] # NoLogger} :
      LET l == m_loggers[n]
          given == Given(l)
          d == m_val[n]
      IN /\ init(l.formatter).items = Made[l.formatter]
         /\ n \notin DOMAIN m_val => given = <<>> /\ l.level \in {INFO, UNKNOWN}
         /\ n \in DOMAIN m_val =>
              /\ l.level = d.level
              /\ l.formatter = d.formatter \/ d.formatter \notin DOMAIN Made
              /\ Len(given) = Len(d.appenders)
              /\ \A i \in 1 .. Len(given) :
                   LET a == d.appenders[i]
                   IN /\ given[i].type = a.type /\ given[i].level = a.level
                      /\ given[i].formatter = (IF a.formatter \in DOMAIN Made THEN a.formatter
                                               ELSE l.formatter)

\* Two values have the same names with the same levels and formatters.
Agree(v, w) ==
  /\ DOMAIN v = DOMAIN w
  /\ \A n \in DOMAIN w : v[n].level = w[n].level /\ v[n].formatter = w[n].formatter

\* After a load the value of "logs" is, with its appenders, the value of the last text
\* that could be read; but loads that brought nothing new but appenders had no effect,
\* and it is the first value of the run of such loads that counts.
LoadTakesEffect ==
  job = Idle /\ ~died =>
    \E i \in 1 .. Len(loaded) :
      /\ m_val = loaded[i]
      /\ \A k \in i .. Len(loaded) : Agree(m_val, loaded[k])
      /\ i > 1 => ~Agree(loaded[i - 1], m_val)
=============================================================================
