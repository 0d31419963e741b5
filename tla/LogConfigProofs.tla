-------------------------- MODULE LogConfigProofs --------------------------
(***************************************************************************)
(* Proofs about LogConfig, for any variables, loggers, threads and texts.  *)
(***************************************************************************)
EXTENDS LogConfig, WellFoundedInduction, TLAPS

\* The variables and their listeners: told has the listeners there are, and as long
\* as none has thrown each was last told the value its variable has.
ConfigTypes ==
  /\ GetDatas \in [VarNames -> ConfigVars \cup {NoVar}]
  /\ s_fun_id \in [Types -> Nat]
  /\ threw \in BOOLEAN
Listens ==
  \A x \in DOMAIN told :
    x \in VarNames \X Nat /\ Known(x[1]) /\ x[2] \in GetDatas[x[1]].m_cbs
UpToDate == ~threw => \A x \in DOMAIN told : told[x].new = GetDatas[x[1]].m_val
ConfigInv == ConfigTypes /\ Listens /\ UpToDate

\* What ListenersSeeEveryChange says of a step.
Chained ==
  ~threw' =>
    \A x \in DOMAIN told \cap DOMAIN told' :
      /\ told'[x] # told[x] => told'[x].old = told[x].new
      /\ told'[x].new = GetDatas'[x[1]].m_val

LEMMA KnownIsVar ==
  ASSUME ConfigTypes, NEW n \in VarNames, Known(n)
  PROVE  /\ GetDatas[n] \in ConfigVars /\ GetDatas[n].type \in Types
         /\ GetDatas[n].m_val \in Values /\ GetDatas[n].m_cbs \in SUBSET Nat
<1>1. GetDatas[n] \in ConfigVars
  BY DEF ConfigTypes, Known
<1> QED BY <1>1 DEF ConfigVars

LEMMA ConfigStarts == ConfigInit => ConfigInv
<1> SUFFICES ASSUME ConfigInit PROVE ConfigInv
  OBVIOUS
<1>1. ConfigTypes
  BY DEF ConfigInit, ConfigTypes
<1>2. DOMAIN told = {}
  BY DEF ConfigInit
<1> QED BY <1>1, <1>2 DEF ConfigInv, Listens, UpToDate

LEMMA LookUpChains ==
  ASSUME ConfigInv, NEW n \in VarNames, NEW t \in Types, NEW v \in Values, lookUp(n, t, v)
  PROVE  ConfigInv' /\ Chained
<1> DEFINE new == [type |-> t, m_val |-> v, m_cbs |-> {}]
<1>1. new \in ConfigVars
  BY DEF ConfigVars
<1> HIDE DEF new
<1>2. /\ GetDatas' = IF Known(n) THEN GetDatas ELSE [GetDatas EXCEPT ![n] = new]
      /\ UNCHANGED <<s_fun_id, told, threw>>
  BY DEF lookUp, new
<1>3. ConfigTypes'
  BY <1>1, <1>2 DEF ConfigInv, ConfigTypes
<1>4. \A x \in DOMAIN told : GetDatas'[x[1]] = GetDatas[x[1]]
  <2>1. ASSUME NEW x \in DOMAIN told
        PROVE  x[1] \in VarNames /\ Known(x[1])
    BY DEF ConfigInv, Listens
  <2> QED BY <1>2, <2>1 DEF ConfigInv, ConfigTypes
<1>5. Listens'
  BY <1>2, <1>4 DEF ConfigInv, Listens, Known
<1>6. UpToDate'
  BY <1>2, <1>4 DEF ConfigInv, UpToDate
<1> QED BY <1>2, <1>3, <1>5, <1>6 DEF ConfigInv, Chained, UpToDate

LEMMA AddListenerChains ==
  ASSUME ConfigInv, NEW n \in VarNames, addListener(n)
  PROVE  ConfigInv' /\ Chained
<1> DEFINE var == GetDatas[n]
           id == s_fun_id[var.type] + 1
           new == [var EXCEPT !.m_cbs = @ \cup {id}]
<1>1. /\ var \in ConfigVars /\ var.type \in Types /\ var.m_val \in Values
      /\ var.m_cbs \in SUBSET Nat /\ Known(n)
  BY KnownIsVar DEF ConfigInv, addListener
<1>2. id \in Nat
  BY <1>1 DEF ConfigInv, ConfigTypes
<1>3. /\ s_fun_id' = [s_fun_id EXCEPT ![var.type] = id]
      /\ GetDatas' = [GetDatas EXCEPT ![n] = new]
      /\ told' = [x \in DOMAIN told \cup {<<n, id>>} |->
                    IF x = <<n, id>> THEN [old |-> var.m_val, new |-> var.m_val] ELSE told[x]]
      /\ threw' = threw
  BY DEF addListener
<1> HIDE DEF id
<1>4. new \in ConfigVars /\ new.m_val = var.m_val /\ new.m_cbs = var.m_cbs \cup {id} /\ new # NoVar
  BY <1>1, <1>2, ConfigAssumption DEF ConfigVars
<1> HIDE DEF new
<1>5. ConfigTypes'
  BY <1>1, <1>2, <1>3, <1>4 DEF ConfigInv, ConfigTypes
<1>6. \A m \in VarNames : GetDatas'[m] = IF m = n THEN new ELSE GetDatas[m]
  BY <1>3 DEF ConfigInv, ConfigTypes
<1>7. Listens'
  <2>1. ASSUME NEW x \in DOMAIN told'
        PROVE  x \in VarNames \X Nat /\ GetDatas'[x[1]] # NoVar /\ x[2] \in GetDatas'[x[1]].m_cbs
    <3>1. CASE x = <<n, id>>
      BY <1>2, <1>4, <1>6, <3>1
    <3>2. CASE x \in DOMAIN told
      BY <1>4, <1>6, <3>2 DEF ConfigInv, Listens, Known
    <3> QED BY <1>3, <3>1, <3>2
  <2> QED BY <2>1 DEF Listens, Known
<1>8. UpToDate'
  <2>1. ASSUME NEW x \in DOMAIN told', ~threw
        PROVE  told'[x].new = GetDatas'[x[1]].m_val
    <3>1. CASE x = <<n, id>>
      BY <1>3, <1>4, <1>6, <3>1
    <3>2. CASE x # <<n, id>>
      <4>1. x \in DOMAIN told /\ told'[x] = told[x]
        BY <1>3, <3>2
      <4> QED BY <1>4, <1>6, <2>1, <4>1 DEF ConfigInv, Listens, UpToDate
    <3> QED BY <3>1, <3>2
  <2> QED BY <1>3, <2>1 DEF UpToDate
<1>9. ASSUME NEW x \in DOMAIN told, told'[x] # told[x], ~threw
      PROVE  told'[x].old = told[x].new
  <2>1. x = <<n, id>> /\ told'[x].old = var.m_val
    BY <1>3, <1>9
  <2> QED BY <1>9, <2>1 DEF ConfigInv, UpToDate
<1> QED BY <1>3, <1>5, <1>7, <1>8, <1>9 DEF ConfigInv, Chained, UpToDate

LEMMA DelListenerChains ==
  ASSUME ConfigInv, NEW n \in VarNames, NEW id, delListener(n, id)
  PROVE  ConfigInv' /\ Chained
<1> DEFINE var == GetDatas[n]
           new == [var EXCEPT !.m_cbs = @ \ {id}]
<1>1. var \in ConfigVars /\ var.m_cbs \in SUBSET Nat
  BY KnownIsVar DEF ConfigInv, delListener
<1>2. /\ GetDatas' = [GetDatas EXCEPT ![n] = new]
      /\ told' = [x \in DOMAIN told \ {<<n, id>>} |-> told[x]]
      /\ UNCHANGED <<s_fun_id, threw>>
  BY DEF delListener
<1>3. new \in ConfigVars /\ new.m_val = var.m_val /\ new.m_cbs = var.m_cbs \ {id} /\ new # NoVar
  BY <1>1, ConfigAssumption DEF ConfigVars
<1> HIDE DEF new
<1>4. ConfigTypes'
  BY <1>2, <1>3 DEF ConfigInv, ConfigTypes
<1>5. \A m \in VarNames : GetDatas'[m] = IF m = n THEN new ELSE GetDatas[m]
  BY <1>2 DEF ConfigInv, ConfigTypes
<1>6. \A x \in DOMAIN told' : x \in DOMAIN told /\ told'[x] = told[x] /\ x # <<n, id>>
  BY <1>2
<1>7. ASSUME NEW x \in DOMAIN told'
      PROVE  /\ x \in VarNames \X Nat /\ GetDatas'[x[1]] # NoVar /\ x[2] \in GetDatas'[x[1]].m_cbs
             /\ GetDatas'[x[1]].m_val = GetDatas[x[1]].m_val
  <2>1. x \in VarNames \X Nat /\ Known(x[1]) /\ x[2] \in GetDatas[x[1]].m_cbs
    BY <1>6 DEF ConfigInv, Listens
  <2>2. CASE x[1] = n
    <3>1. x[2] # id
      BY <1>6, <2>1, <2>2
    <3> QED BY <1>3, <1>5, <2>1, <2>2, <3>1
  <2>3. CASE x[1] # n
    BY <1>5, <2>1, <2>3 DEF Known
  <2> QED BY <2>2, <2>3
<1>8. Listens'
  BY <1>7 DEF Listens, Known
<1>9. UpToDate'
  BY <1>2, <1>6, <1>7 DEF ConfigInv, UpToDate
<1> QED BY <1>4, <1>6, <1>8, <1>9 DEF ConfigInv, Chained, UpToDate

\* setValue: every listener that there is has been told when the value changes.
LEMMA SetValueChains ==
  ASSUME ConfigInv, NEW n \in VarNames, Known(n), NEW v \in Values, NEW th,
         setValue(n, v, th), s_fun_id' = s_fun_id
  PROVE  ConfigInv' /\ Chained
<1> DEFINE var == GetDatas[n]
           called == {id \in var.m_cbs : th = 0 \/ id <= th}
           new == [var EXCEPT !.m_val = v]
<1>1. CASE v = var.m_val
  <2>1. UNCHANGED <<GetDatas, told, threw>>
    BY <1>1 DEF setValue
  <2> QED BY <2>1 DEF ConfigInv, ConfigTypes, Listens, UpToDate, Chained, Known
<1>2. CASE v # var.m_val
  <2>1. /\ told' = [x \in DOMAIN told |->
                      IF x[1] = n /\ x[2] \in called
                      THEN [old |-> var.m_val, new |-> v] ELSE told[x]]
        /\ GetDatas' = IF th = 0 THEN [GetDatas EXCEPT ![n].m_val = v] ELSE GetDatas
        /\ threw' = (threw \/ th # 0)
    BY <1>2 DEF setValue, OldValue
  <2>2. var \in ConfigVars
    BY KnownIsVar DEF ConfigInv
  <2>3. new \in ConfigVars /\ new.m_val = v /\ new.m_cbs = var.m_cbs /\ new # NoVar
    BY <2>2, ConfigAssumption DEF ConfigVars
  <2>4. GetDatas' = IF th = 0 THEN [GetDatas EXCEPT ![n] = new] ELSE GetDatas
    BY <2>1
  <2>5. threw' \in BOOLEAN /\ (~threw' => ~threw /\ th = 0)
    BY <2>1 DEF ConfigInv, ConfigTypes
  <2> HIDE DEF new
  <2>6. ConfigTypes'
    BY <2>3, <2>4, <2>5 DEF ConfigInv, ConfigTypes
  <2>7. /\ \A m \in VarNames : m # n => GetDatas'[m] = GetDatas[m]
        /\ GetDatas'[n] = IF th = 0 THEN new ELSE var
    BY <2>4 DEF ConfigInv, ConfigTypes
  <2>8. DOMAIN told' = DOMAIN told
    BY <2>1
  <2>9. ASSUME NEW x \in DOMAIN told
        PROVE  x \in VarNames \X Nat /\ GetDatas'[x[1]] # NoVar /\ x[2] \in GetDatas'[x[1]].m_cbs
    BY <2>3, <2>7 DEF ConfigInv, Listens, Known
  <2>10. Listens'
    BY <2>8, <2>9 DEF Listens, Known
  <2>11. ASSUME NEW x \in DOMAIN told, ~threw'
         PROVE  /\ told'[x] # told[x] => told'[x].old = told[x].new
                /\ told'[x].new = GetDatas'[x[1]].m_val
    <3>1. x[1] \in VarNames /\ x[2] \in GetDatas[x[1]].m_cbs /\ told[x].new = GetDatas[x[1]].m_val
      BY <2>5, <2>11 DEF ConfigInv, Listens, UpToDate
    <3>2. CASE x[1] = n
      <4>1. x[2] \in called
        BY <2>5, <2>11, <3>1, <3>2
      <4>2. told'[x] = [old |-> var.m_val, new |-> v]
        <5> HIDE DEF called
        <5> QED BY <2>1, <3>2, <4>1
      <4> QED BY <2>3, <2>5, <2>7, <2>11, <3>1, <3>2, <4>2
    <3>3. CASE x[1] # n
      BY <2>1, <2>7, <3>1, <3>3
    <3> QED BY <3>2, <3>3
  <2>12. UpToDate'
    BY <2>8, <2>11 DEF UpToDate
  <2> QED BY <2>6, <2>8, <2>10, <2>11, <2>12 DEF ConfigInv, Chained
<1> QED BY <1>1, <1>2

LEMMA LoadFromYamlChains ==
  ASSUME ConfigInv, NEW key \in VarNames, NEW v \in Values \cup {Refused}, NEW th,
         LoadFromYaml(key, v, th)
  PROVE  ConfigInv' /\ Chained
<1>1. CASE LowerName[key] \in VarNames /\ Known(LowerName[key]) /\ v # Refused
  <2>1. setValue(LowerName[key], v, th) /\ s_fun_id' = s_fun_id
    BY <1>1 DEF LoadFromYaml
  <2>2. v \in Values
    BY <1>1
  <2> QED BY <1>1, <2>1, <2>2, SetValueChains
<1>2. CASE ~(LowerName[key] \in VarNames /\ Known(LowerName[key]) /\ v # Refused)
  <2>1. UNCHANGED <<s_fun_id, GetDatas, told, threw>>
    BY <1>2 DEF LoadFromYaml
  <2> QED BY <2>1 DEF ConfigInv, ConfigTypes, Listens, UpToDate, Chained, Known
<1> QED BY <1>1, <1>2

LEMMA ConfigStep ==
  ASSUME ConfigInv, [Next]_vars
  PROVE  ConfigInv' /\ Chained
<1>1. CASE ConfigNext
  BY <1>1, LookUpChains, AddListenerChains, DelListenerChains, LoadFromYamlChains DEF ConfigNext
<1>2. CASE UNCHANGED configVars
  BY <1>2 DEF configVars, ConfigInv, ConfigTypes, Listens, UpToDate, Chained, Known
<1> QED BY <1>1, <1>2 DEF Next, vars

\* Until a listener throws, each one sees every change of its variable as an unbroken
\* chain of values (ConfigVar::setValue tells before it assigns), whatever variables,
\* types, listeners and texts there are.
THEOREM ListenersSeeEveryChangeHolds == Spec => ListenersSeeEveryChange
<1>1. Init => ConfigInv
  BY ConfigStarts DEF Init
<1>2. ConfigInv /\ [Next]_vars => [Chained]_configVars
  BY ConfigStep
<1>3. ListenersSeeEveryChange <=> [][Chained]_configVars
  BY PTL DEF ListenersSeeEveryChange, Chained
<1> QED BY <1>1, <1>2, <1>3, ConfigStep, PTL DEF Spec

-----------------------------------------------------------------------------
\* The last value loaded is that of "logs", up to the appenders a load without other
\* news would have brought, or it is on its way to become it.
JobShape == job = [runs |-> job.runs, todo |-> job.todo, adds |-> job.adds, new |-> job.new]
LoadValues == {NoDefines} \cup {DefinesOf(y) : y \in Yamls}
Lasts(v, l, i) ==
  /\ v = l[i]
  /\ \A k \in i .. Len(l) : Agree(v, l[k])
  /\ i > 1 => ~Agree(l[i - 1], v)
LoadInv ==
  /\ JobShape /\ (job = Idle \/ job.runs = TRUE)
  /\ loaded \in Seq(LoadValues) /\ Len(loaded) >= 1
  /\ job = Idle => \E i \in 1 .. Len(loaded) : Lasts(m_val, loaded, i)
  /\ job.runs = TRUE => Lasts(job.new, loaded, Len(loaded))

LEMMA IdleShape == Idle.runs = FALSE /\ Idle = [runs |-> Idle.runs, todo |-> Idle.todo,
                                               adds |-> Idle.adds, new |-> Idle.new]
BY DEF Idle

LEMMA LoadStarts == Init => LoadInv
<1> SUFFICES ASSUME Init PROVE LoadInv
  OBVIOUS
<1>1. job = Idle /\ m_val = NoDefines /\ loaded = <<NoDefines>>
  BY DEF Init
<1>2. loaded \in Seq(LoadValues) /\ Len(loaded) = 1 /\ loaded[1] = m_val
  BY <1>1 DEF LoadValues
<1>3. Lasts(m_val, loaded, 1)
  BY <1>2 DEF Lasts, Agree
<1> QED BY <1>1, <1>2, <1>3, IdleShape DEF LoadInv, JobShape

\* The steps of the listener leave the new value as it is.
LEMMA JobMoves ==
  ASSUME LoadInv, job # Idle, NEW todo, NEW adds,
         \/ job' = job
         \/ job' = [job EXCEPT !.todo = todo]
         \/ job' = [job EXCEPT !.adds = adds]
         \/ job' = [job EXCEPT !.adds = adds, !.todo = todo],
         UNCHANGED <<m_val, loaded>>
  PROVE  LoadInv'
<1>1. JobShape /\ job.runs = TRUE /\ Lasts(job.new, loaded, Len(loaded))
  BY DEF LoadInv
<1>2. JobShape' /\ job'.runs = TRUE /\ job'.new = job.new
  BY <1>1 DEF JobShape
<1>3. job' # Idle
  BY <1>2, IdleShape
<1>4. Lasts(job'.new, loaded', Len(loaded'))
  BY <1>1, <1>2
<1> QED BY <1>2, <1>3, <1>4 DEF LoadInv

\* A value that is read is put behind the others; those keep their places.
LEMMA ReadBehind ==
  ASSUME LoadInv, NEW v \in LoadValues, loaded' = Append(loaded, v)
  PROVE  /\ loaded' \in Seq(LoadValues) /\ Len(loaded') = Len(loaded) + 1 /\ Len(loaded) \in Nat
         /\ loaded'[Len(loaded) + 1] = v
         /\ \A k \in 1 .. Len(loaded) : loaded'[k] = loaded[k]
BY DEF LoadInv

LEMMA LoadLogsKeeps == ASSUME LoadInv, NEW y \in Yamls, LoadLogs(y) PROVE LoadInv'
<1> DEFINE v == DefinesOf(y)
           refused == \E i \in 1 .. Len(y) : ~y[i].complete
           todo == InOrder(DOMAIN v) \o InOrder(DOMAIN m_val \ DOMAIN v)
<1>1. /\ job = Idle /\ m_val' = m_val
      /\ loaded' = IF refused THEN loaded ELSE Append(loaded, v)
      /\ job' = IF refused \/ SameValue(v, m_val) THEN job
                ELSE [runs |-> TRUE, todo |-> todo, adds |-> <<>>, new |-> v]
  BY DEF LoadLogs
<1>2. v \in LoadValues
  BY DEF LoadValues
<1> HIDE DEF v, refused, todo
<1>3. CASE refused
  <2>1. job' = job /\ loaded' = loaded
    BY <1>1, <1>3
  <2> QED BY <1>1, <2>1 DEF LoadInv, JobShape
<1>4. PICK i \in 1 .. Len(loaded) : Lasts(m_val, loaded, i)
  BY <1>1 DEF LoadInv
<1>5. CASE ~refused /\ SameValue(v, m_val)
  <2>1. job' = Idle /\ loaded' = Append(loaded, v) /\ job = Idle
    BY <1>1, <1>5
  <2>2. Agree(m_val, v)
    BY <1>5 DEF SameValue, SameDefine, Agree
  <2>3. Lasts(m_val, loaded', i)
    BY <1>2, <1>4, <2>1, <2>2, ReadBehind DEF Lasts
  <2>4. i \in 1 .. Len(loaded') /\ loaded' \in Seq(LoadValues) /\ Len(loaded') >= 1
    BY <1>2, <2>1, ReadBehind
  <2> QED BY <1>1, <2>1, <2>3, <2>4, IdleShape DEF LoadInv, JobShape
<1>6. CASE ~refused /\ ~SameValue(v, m_val)
  <2>1. /\ job' = [runs |-> TRUE, todo |-> todo, adds |-> <<>>, new |-> v]
        /\ loaded' = Append(loaded, v)
    BY <1>1, <1>6
  <2>2. JobShape' /\ job'.runs = TRUE /\ job'.new = v
    BY <2>1 DEF JobShape
  <2>3. job' # Idle
    BY <2>2, IdleShape
  <2>4. Agree(m_val, loaded[Len(loaded)])
    BY <1>4 DEF Lasts, LoadInv
  <2>5. ~Agree(loaded[Len(loaded)], v)
    BY <1>6, <2>4 DEF SameValue, SameDefine, Agree
  <2>6. Agree(v, v)
    BY DEF Agree
  <2>7. Lasts(v, loaded', Len(loaded'))
    BY <1>2, <2>1, <2>5, <2>6, ReadBehind DEF Lasts, LoadInv
  <2>8. loaded' \in Seq(LoadValues) /\ Len(loaded') >= 1
    BY <1>2, <2>1, ReadBehind
  <2> QED BY <2>2, <2>3, <2>7, <2>8 DEF LoadInv
<1> QED BY <1>3, <1>5, <1>6

LEMMA LoadStep == ASSUME LoadInv, [Next]_vars PROVE LoadInv'
<1>1. ASSUME NEW y \in Yamls, LoadLogs(y) PROVE LoadInv'
  BY <1>1, LoadLogsKeeps
<1>2. CASE NextLogger
  <2>1. /\ job # Idle /\ UNCHANGED <<m_val, loaded>>
        /\ \/ job' = job
           \/ job' = [job EXCEPT !.todo = Tail(job.todo)]
           \/ job' = [job EXCEPT !.adds = job.new[Head(job.todo)].appenders]
    BY <1>2 DEF NextLogger
  <2> QED BY <2>1, JobMoves
<1>3. CASE NextAppender
  <2> DEFINE todo == IF Len(job.adds) = 1 THEN Tail(job.todo) ELSE job.todo
  <2>1. /\ job # Idle /\ UNCHANGED <<m_val, loaded>>
        /\ \/ job' = job
           \/ job' = [job EXCEPT !.adds = Tail(job.adds), !.todo = todo]
    BY <1>3 DEF NextAppender
  <2> HIDE DEF todo
  <2> QED BY <2>1, JobMoves
<1>4. CASE Assign
  <2>1. job # Idle /\ m_val' = job.new /\ job' = Idle /\ loaded' = loaded
    BY <1>4 DEF Assign
  <2>2. Lasts(m_val', loaded', Len(loaded')) /\ Len(loaded') \in 1 .. Len(loaded')
    BY <2>1 DEF LoadInv
  <2> QED BY <2>1, <2>2, IdleShape DEF LoadInv, JobShape
<1>5. CASE UNCHANGED <<m_val, job, loaded>>
  BY <1>5 DEF LoadInv, JobShape
<1>6. ASSUME NEW t \in Threads, NEW n \in Names, NEW level \in EventLevels, Log(t, n, level)
      PROVE  UNCHANGED <<m_val, job, loaded>>
  BY <1>6 DEF Log
<1>7. ASSUME NEW t \in Threads, LogAdds(t)
      PROVE  UNCHANGED <<m_val, job, loaded>>
  BY <1>7 DEF LogAdds
<1>8. UNCHANGED logVars => UNCHANGED <<m_val, job, loaded>>
  BY DEF logVars
<1>9. LogNext \/ UNCHANGED logVars
  BY DEF Next, vars
<1> QED BY <1>1, <1>2, <1>3, <1>4, <1>5, <1>6, <1>7, <1>8, <1>9 DEF LogNext

\* Between two loads the variable "logs" has the value of the last text that could be
\* read, or of the first of those that brought nothing new but appenders
\* (ConfigVar::setValue with operator== of LogDefine), for any texts and number of loads.
THEOREM LoadTakesEffectHolds == Spec => []LoadTakesEffect
<1>1. LoadInv => LoadTakesEffect
  <2> SUFFICES ASSUME LoadInv, job = Idle PROVE LoadTakesEffect
    BY DEF LoadTakesEffect
  <2>1. PICK i \in 1 .. Len(loaded) : Lasts(m_val, loaded, i)
    BY DEF LoadInv
  <2> QED BY <2>1 DEF Lasts, LoadTakesEffect
<1> QED BY <1>1, LoadStarts, LoadStep, PTL DEF Spec

-----------------------------------------------------------------------------
\* Induction: a set of natural numbers that is not empty has a least element, so a
\* property that holds of a number whenever it holds of the smaller ones fails nowhere.
Less == {p \in Nat \X Nat : p[1] < p[2]}

LEMMA LessIsWellFounded == IsWellFoundedOn(Less, Nat)
<1>1. ASSUME NEW x PROVE x \in OpToRel(<, Nat) <=> x \in Less
  BY Zenon DEF OpToRel, Less
<1>2. OpToRel(<, Nat) = Less
  BY Zenon, <1>1
<1>3. IsWellFoundedOn(OpToRel(<, Nat), Nat)
  BY NatLessThanWellFounded, Zenon
<1> QED BY Zenon, <1>2, <1>3

LEMMA LeastElement ==
  ASSUME NEW S \in SUBSET Nat, S # {}
  PROVE  \E n \in S : \A m \in S : n <= m
<1>1. PICK n \in S : \A m \in S : <<m, n>> \notin Less
  BY LessIsWellFounded, WFMin
<1>2. ASSUME NEW m \in S PROVE n <= m
  <2>1. <<m, n>> \in Nat \X Nat /\ <<m, n>>[1] = m /\ <<m, n>>[2] = n
    OBVIOUS
  <2>2. ~(m < n)
    BY <1>1, <2>1 DEF Less
  <2> QED BY <2>2
<1> QED BY <1>2

\* The function behind Only, of the first n elements.
Upto(f, s, S, n) ==
  f = [k \in 0 .. n |->
        IF k = 0 THEN <<>> ELSE IF s[k] \in S THEN Append(f[k - 1], s[k]) ELSE f[k - 1]]

LEMMA UptoExists ==
  ASSUME NEW s, NEW S, NEW n \in Nat
  PROVE  \E f : Upto(f, s, S, n)
<1> DEFINE Bad == {k \in Nat : ~ \E f : Upto(f, s, S, k)}
<1>1. SUFFICES ASSUME Bad # {} PROVE FALSE
  OBVIOUS
<1>2. PICK m \in Bad : \A k \in Bad : m <= k
  <2> HIDE DEF Bad
  <2>1. Bad \in SUBSET Nat
    BY DEF Bad
  <2> QED BY <1>1, <2>1, LeastElement
<1>3. CASE m = 0
  <2>1. Upto([k \in 0 .. 0 |-> <<>>], s, S, 0)
    BY DEF Upto
  <2> QED BY <1>3, <2>1
<1>4. CASE m # 0
  <2>1. m - 1 \in Nat /\ m - 1 \notin Bad
    BY <1>2, <1>4
  <2>2. PICK g : Upto(g, s, S, m - 1)
    BY <2>1
  <2> DEFINE new == IF s[m] \in S THEN Append(g[m - 1], s[m]) ELSE g[m - 1]
             h == [k \in 0 .. m |-> IF k = m THEN new ELSE g[k]]
  <2>3. ASSUME NEW k \in 0 .. m
        PROVE  h[k] = IF k = 0 THEN <<>> ELSE IF s[k] \in S THEN Append(h[k - 1], s[k]) ELSE h[k - 1]
    <3>1. CASE k = m
      <4>1. h[k - 1] = g[m - 1] /\ h[k] = new
        BY <1>4, <3>1
      <4> QED BY <1>4, <3>1, <4>1
    <3>2. CASE k # m /\ k = 0
      <4>1. h[k] = g[0]
        BY <3>2
      <4> QED BY <2>1, <2>2, <3>2, <4>1 DEF Upto
    <3>3. CASE k # m /\ k # 0
      <4>1. h[k] = g[k] /\ h[k - 1] = g[k - 1] /\ k \in 0 .. m - 1
        BY <3>3
      <4> HIDE DEF h
      <4> QED BY <2>2, <3>3, <4>1 DEF Upto
    <3> QED BY <3>1, <3>2, <3>3
  <2>4. DOMAIN h = 0 .. m
    OBVIOUS
  <2>5. Upto(h, s, S, m)
    <3>1. h = [k \in 0 .. m |-> h[k]]
      OBVIOUS
    <3> HIDE DEF h
    <3> QED BY <2>3, <3>1 DEF Upto
  <2> QED BY <2>5
<1> QED BY <1>3, <1>4

LEMMA OnlyIsUpto ==
  ASSUME NEW X, NEW s \in Seq(X), NEW S
  PROVE  \E f : Upto(f, s, S, Len(s)) /\ Only(s, S) = f[Len(s)]
<1> DEFINE f == CHOOSE g : Upto(g, s, S, Len(s))
<1>1. Upto(f, s, S, Len(s))
  BY UptoExists
<1>2. Only(s, S) = f[Len(s)]
  BY DEF Only, Upto
<1> HIDE DEF f
<1> QED BY <1>1, <1>2

LEMMA UptoRound ==
  ASSUME NEW f, NEW s, NEW S, NEW n \in Nat, Upto(f, s, S, n)
  PROVE  /\ f[0] = <<>>
         /\ \A k \in 1 .. n : f[k] = IF s[k] \in S THEN Append(f[k - 1], s[k]) ELSE f[k - 1]
<1>1. f[0] = <<>>
  BY DEF Upto
<1>2. ASSUME NEW k \in 1 .. n
      PROVE  f[k] = IF s[k] \in S THEN Append(f[k - 1], s[k]) ELSE f[k - 1]
  <2>1. k \in 0 .. n /\ k # 0
    OBVIOUS
  <2> QED BY <2>1 DEF Upto
<1> QED BY <1>1, <1>2

\* Every element that is in S is among the ones Only leaves.
LEMMA OnlyCovers ==
  ASSUME NEW X, NEW s \in Seq(X), NEW S
  PROVE  /\ Only(s, S) \in Seq(X)
         /\ \A i \in 1 .. Len(s) : s[i] \in S =>
              \E j \in 1 .. Len(Only(s, S)) : Only(s, S)[j] = s[i]
<1>1. PICK f : Upto(f, s, S, Len(s)) /\ Only(s, S) = f[Len(s)]
  BY OnlyIsUpto
<1> DEFINE Good(k) ==
      /\ f[k] \in Seq(X)
      /\ \A i \in 1 .. k : s[i] \in S => \E j \in 1 .. Len(f[k]) : f[k][j] = s[i]
<1> DEFINE Bad == {k \in 0 .. Len(s) : ~Good(k)}
<1>2. SUFFICES ASSUME Bad # {} PROVE FALSE
  BY <1>1
<1>3. PICK m \in Bad : \A k \in Bad : m <= k
  <2>1. Bad \in SUBSET Nat
    OBVIOUS
  <2> HIDE DEF Bad
  <2> QED BY <1>2, <2>1, LeastElement
<1>4. CASE m = 0
  <2>1. f[0] = <<>> /\ <<>> \in Seq(X) /\ Len(s) \in Nat
    BY <1>1, UptoRound
  <2>2. Good(0)
    BY <2>1
  <2> QED BY <1>3, <1>4, <2>2
<1>5. CASE m # 0
  <2>1. m \in 1 .. Len(s) /\ m - 1 \in 0 .. Len(s) /\ m - 1 \notin Bad
    BY <1>3, <1>5
  <2> DEFINE t == f[m - 1]
  <2>2. t \in Seq(X) /\ \A i \in 1 .. m - 1 : s[i] \in S => \E j \in 1 .. Len(t) : t[j] = s[i]
    BY <2>1
  <2>3. f[m] = IF s[m] \in S THEN Append(t, s[m]) ELSE t
    BY <1>1, <2>1, UptoRound
  <2>4. s[m] \in X
    BY <2>1
  <2> HIDE DEF t
  <2>5. CASE s[m] \in S
    <3>1. /\ f[m] \in Seq(X) /\ Len(f[m]) = Len(t) + 1 /\ f[m][Len(t) + 1] = s[m]
          /\ \A j \in 1 .. Len(t) : f[m][j] = t[j]
      BY <2>2, <2>3, <2>4, <2>5
    <3>2. ASSUME NEW i \in 1 .. m, s[i] \in S
          PROVE  \E j \in 1 .. Len(f[m]) : f[m][j] = s[i]
      <4>1. CASE i = m
        BY <2>2, <3>1, <4>1
      <4>2. CASE i # m
        <5>1. i \in 1 .. m - 1
          BY <4>2
        <5>2. PICK j \in 1 .. Len(t) : t[j] = s[i]
          BY <2>2, <3>2, <5>1
        <5> QED BY <2>2, <3>1, <5>2
      <4> QED BY <4>1, <4>2
    <3>3. Good(m)
      BY <3>1, <3>2
    <3> QED BY <1>3, <3>3
  <2>6. CASE s[m] \notin S
    <3>1. f[m] = t
      BY <2>3, <2>6
    <3>2. ASSUME NEW i \in 1 .. m, s[i] \in S
          PROVE  \E j \in 1 .. Len(t) : t[j] = s[i]
      <4>1. i \in 1 .. m - 1
        BY <2>1, <2>6, <3>2
      <4> QED BY <2>2, <3>2, <4>1
    <3>3. Good(m)
      BY <2>2, <3>1, <3>2
    <3> QED BY <1>3, <3>3
  <2> QED BY <2>5, <2>6
<1> QED BY <1>4, <1>5

\* What Only leaves of a longer sequence.
LEMMA OnlyOfAppend ==
  ASSUME NEW X, NEW s \in Seq(X), NEW a \in X, NEW S
  PROVE  Only(Append(s, a), S) = IF a \in S THEN Append(Only(s, S), a) ELSE Only(s, S)
<1> DEFINE t == Append(s, a)
<1>1. /\ t \in Seq(X) /\ Len(t) = Len(s) + 1 /\ t[Len(s) + 1] = a /\ Len(s) \in Nat
      /\ \A i \in 1 .. Len(s) : t[i] = s[i]
  OBVIOUS
<1> HIDE DEF t
<1>2. PICK f : Upto(f, s, S, Len(s)) /\ Only(s, S) = f[Len(s)]
  BY OnlyIsUpto
<1>3. PICK g : Upto(g, t, S, Len(t)) /\ Only(t, S) = g[Len(t)]
  BY <1>1, OnlyIsUpto
<1> DEFINE Bad == {k \in 0 .. Len(s) : f[k] # g[k]}
<1>4. Bad = {}
  <2>1. SUFFICES ASSUME Bad # {} PROVE FALSE
    OBVIOUS
  <2>2. PICK m \in Bad : \A k \in Bad : m <= k
    <3>1. Bad \in SUBSET Nat
      OBVIOUS
    <3> HIDE DEF Bad
    <3> QED BY <2>1, <3>1, LeastElement
  <2>3. CASE m = 0
    BY <1>1, <1>2, <1>3, <2>2, <2>3, UptoRound
  <2>4. CASE m # 0
    <3>1. m \in 1 .. Len(s) /\ m \in 1 .. Len(t) /\ m - 1 \in 0 .. Len(s) /\ m - 1 \notin Bad
      BY <1>1, <2>2, <2>4
    <3>2. f[m] = IF s[m] \in S THEN Append(f[m - 1], s[m]) ELSE f[m - 1]
      BY <1>2, <3>1, UptoRound
    <3>3. g[m] = IF t[m] \in S THEN Append(g[m - 1], t[m]) ELSE g[m - 1]
      BY <1>1, <1>3, <3>1, UptoRound
    <3>4. f[m - 1] = g[m - 1] /\ t[m] = s[m]
      BY <1>1, <3>1
    <3> QED BY <2>2, <3>2, <3>3, <3>4
  <2> QED BY <2>3, <2>4
<1>5. f[Len(s)] = g[Len(s)]
  BY <1>1, <1>4
<1>6. g[Len(t)] = IF t[Len(t)] \in S THEN Append(g[Len(t) - 1], t[Len(t)]) ELSE g[Len(t) - 1]
  <2>1. Len(t) \in 1 .. Len(t) /\ Len(t) \in Nat
    BY <1>1
  <2> QED BY <1>3, <2>1, UptoRound
<1>7. Len(t) - 1 = Len(s)
  BY <1>1
<1> QED BY <1>1, <1>2, <1>3, <1>5, <1>6, <1>7 DEF t

LEMMA OnlyOfEmpty == ASSUME NEW S PROVE Only(<<>>, S) = <<>>
<1>1. PICK f : Upto(f, <<>>, S, 0) /\ Only(<<>>, S) = f[0]
  <2>1. <<>> \in Seq({}) /\ Len(<<>>) = 0
    OBVIOUS
  <2> QED BY <2>1, OnlyIsUpto
<1> QED BY <1>1, UptoRound

-----------------------------------------------------------------------------
\* The loggers.  A pattern is in use that is right, and a definition has patterns that
\* Made decides about.
Patterned(d) ==
  /\ d \in Entries /\ d.formatter \in Patterns
  /\ \A i \in 1 .. Len(d.appenders) : d.appenders[i].formatter \in Patterns
Defines(v) == DOMAIN v \subseteq Names /\ \A n \in DOMAIN v : Patterned(v[n])

\* What LoggersFollowConfig says of a logger with the first k appenders of d.
Matches(g, a, l) ==
  /\ g.type = a.type /\ g.level = a.level
  /\ g.formatter = IF a.formatter \in DOMAIN Made THEN a.formatter ELSE l.formatter
Takes(l, d, k) ==
  /\ l.level = d.level
  /\ l.formatter = d.formatter \/ d.formatter \notin DOMAIN Made
  /\ Len(Given(l)) = k
  /\ \A i \in 1 .. k : Matches(Given(l)[i], d.appenders[i], l)
Stands(l, v, n) ==
  /\ n \notin DOMAIN v => Given(l) = <<>> /\ l.level \in {INFO, UNKNOWN}
  /\ n \in DOMAIN v => Takes(l, v[n], Len(v[n].appenders))

\* The loggers that are done stand as the value v says, and those it names exist.
Done(v, n) ==
  /\ m_loggers[n] # NoLogger => Stands(m_loggers[n], v, n)
  /\ n \in DOMAIN v => m_loggers[n] # NoLogger

LogTypes ==
  /\ m_loggers \in [Names -> Loggers \cup {NoLogger}]
  /\ \A n \in Names : m_loggers[n] # NoLogger => m_loggers[n].formatter \in DOMAIN Made
  /\ late \in [Threads -> Names \cup {NoLogger}]
  /\ \A t \in Threads : late[t] # NoLogger => m_loggers[late[t]] # NoLogger
  /\ Defines(m_val)

\* While the listener runs: the loggers behind it are done, and the one at hand has
\* the appenders in front of those in adds.
AtHand ==
  LET n == Head(job.todo)
      d == job.new[n]
      k == Len(d.appenders) - Len(job.adds)
  IN /\ job.todo # <<>> /\ n \in DOMAIN job.new /\ m_loggers[n] # NoLogger
     /\ k \in Nat /\ Takes(m_loggers[n], d, k)
     /\ \A i \in 1 .. Len(job.adds) : job.adds[i] = d.appenders[k + i]
Listening ==
  /\ job.todo \in Seq(Names)
  /\ job.adds \in Seq(AppenderDefs)
  /\ Defines(job.new)
  /\ \A n \in Names : (\A i \in 1 .. Len(job.todo) : job.todo[i] # n) => Done(job.new, n)
  /\ job.adds # <<>> => AtHand

LoggersInv ==
  ~died =>
    /\ LogTypes
    /\ job = Idle => \A n \in Names : Done(m_val, n)
    /\ job # Idle => Listening

-----------------------------------------------------------------------------
\* What the operators of LogConfig do to a logger.
LEMMA LoggerIs ==
  ASSUME NEW l \in Loggers
  PROVE  /\ l = [level |-> l.level, formatter |-> l.formatter, appenders |-> l.appenders]
         /\ l.level \in Nat /\ l.formatter \in Seq(STRING) /\ l.appenders \in Seq(Appenders)
BY DEF Loggers

LEMMA GivenIsSeq == ASSUME NEW l \in Loggers PROVE Given(l) \in Seq(Appenders)
BY LoggerIs, OnlyCovers DEF Given

LEMMA NewLoggerIs ==
  /\ NewLogger \in Loggers /\ NewLogger # NoLogger /\ NewLogger.formatter \in DOMAIN Made
  /\ NewLogger.level = INFO /\ NewLogger.appenders = <<>> /\ Given(NewLogger) = <<>>
<1>1. Default \in Seq(STRING) /\ Default \in DOMAIN Made
  BY MadeAssumption
<1>2. NewLogger \in Loggers
  BY <1>1 DEF NewLogger, Loggers, INFO
<1> QED BY <1>1, <1>2, LogAssumption, OnlyOfEmpty DEF NewLogger, Given

LEMMA StdoutIs ==
  ASSUME NEW l \in Loggers
  PROVE  Stdout(l) \in Appenders /\ Stdout(l).given = FALSE
BY LoggerIs DEF Stdout, Appenders, INFO

\* A logger with one more appender: Given sees it if the configuration gave it.
LEMMA AppendedIs ==
  ASSUME NEW l \in Loggers, NEW a \in Appenders
  PROVE  LET m == [l EXCEPT !.appenders = Append(l.appenders, a)]
         IN /\ m \in Loggers /\ m.level = l.level /\ m.formatter = l.formatter
            /\ Given(m) = IF a.given THEN Append(Given(l), a) ELSE Given(l)
<1> DEFINE q == Append(l.appenders, a)
           m == [level |-> l.level, formatter |-> l.formatter, appenders |-> q]
           S == {x \in Appenders : x.given}
<1>1. l.appenders \in Seq(Appenders)
  BY LoggerIs
<1>2. q \in Seq(Appenders)
  BY <1>1
<1>3. Only(q, S) = IF a \in S THEN Append(Only(l.appenders, S), a) ELSE Only(l.appenders, S)
  <2> HIDE DEF S
  <2> QED BY <1>1, OnlyOfAppend
<1>4. [l EXCEPT !.appenders = q] = m
  <2> HIDE DEF q
  <2> QED BY LoggerIs
<1> HIDE DEF q
<1>5. m \in Loggers /\ m.level = l.level /\ m.formatter = l.formatter /\ m.appenders = q
  BY <1>2, LoggerIs DEF Loggers
<1>6. Given(m) = Only(q, S) /\ Given(l) = Only(l.appenders, S)
  BY DEF Given
<1>7. Given(m) = IF a.given THEN Append(Given(l), a) ELSE Given(l)
  BY <1>3, <1>6
<1> HIDE DEF m
<1> QED BY <1>4, <1>5, <1>7 DEF q

\* Accepted takes the patterns of Made and no others of those in use.
LEMMA AcceptedIs ==
  ASSUME NEW f \in Patterns, NEW old
  PROVE  Accepted(f, old) = IF f \in DOMAIN Made THEN f ELSE old
<1>1. CASE f \in DOMAIN Made
  <2>1. f # <<>> /\ ~init(f).isError
    BY <1>1, MadeAssumption
  <2> QED BY <1>1, <2>1 DEF Accepted
<1>2. CASE f \notin DOMAIN Made
  <2>1. f = <<>> \/ init(f).isError
    BY <1>2, MadeAssumption
  <2> QED BY <1>2, <2>1 DEF Accepted
<1> QED BY <1>1, <1>2

\* The parts of an entry.
LEMMA EntryIs ==
  ASSUME NEW d, Patterned(d)
  PROVE  /\ d.level \in Nat /\ d.formatter \in Seq(STRING) /\ d.formatter \in Patterns
         /\ d.appenders \in Seq(AppenderDefs)
         /\ \A i \in 1 .. Len(d.appenders) : d.appenders[i].formatter \in Patterns
BY DEF Patterned, Entries

LEMMA EntriesArePatterned ==
  ASSUME NEW y \in Yamls, NEW i \in 1 .. Len(y)
  PROVE  Patterned(y[i])
<1>1. y \in Seq(Entries) /\ y[i] \in Entries
  BY LogAssumption
<1>2. y[i] \in UNION {ToSet(z) : z \in Yamls}
  <2>1. y[i] \in ToSet(y)
    BY <1>1 DEF ToSet
  <2> QED BY <2>1
<1> DEFINE e == y[i]
           P == {{d.formatter} \cup {a.formatter : a \in ToSet(d.appenders)} :
                   d \in UNION {ToSet(z) : z \in Yamls}}
<1>3. {e.formatter} \cup {a.formatter : a \in ToSet(e.appenders)} \in P
  <2> HIDE DEF e
  <2> QED BY <1>2 DEF e
<1>4. e.formatter \in Patterns /\ \A a \in ToSet(e.appenders) : a.formatter \in Patterns
  BY <1>3 DEF Patterns
<1>5. ASSUME NEW k \in 1 .. Len(e.appenders) PROVE e.appenders[k] \in ToSet(e.appenders)
  <2>1. e.appenders \in Seq(AppenderDefs)
    BY <1>1 DEF Entries
  <2> HIDE DEF e
  <2> QED BY <2>1 DEF ToSet
<1> QED BY <1>1, <1>4, <1>5 DEF Patterned

\* Of the entries with one name there is a first one.
LEMMA DefinesOfIs == ASSUME NEW y \in Yamls PROVE Defines(DefinesOf(y))
<1> DEFINE First(n) == CHOOSE i \in 1 .. Len(y) :
                         y[i].name = n /\ \A k \in 1 .. i - 1 : y[k].name # n
           D == {y[i].name : i \in 1 .. Len(y)}
<1>1. y \in Seq(Entries)
  BY LogAssumption
<1>2. D \subseteq Names
  <2>1. \A i \in 1 .. Len(y) : y[i] \in Entries
    BY <1>1
  <2> QED BY <2>1 DEF Entries
<1>3. ASSUME NEW n \in D PROVE First(n) \in 1 .. Len(y)
  <2> DEFINE At == {i \in 1 .. Len(y) : y[i].name = n}
  <2>1. At # {} /\ At \in SUBSET Nat
    BY <1>1
  <2>2. PICK i \in At : \A k \in At : i <= k
    <3> HIDE DEF At
    <3> QED BY <2>1, LeastElement
  <2>3. i \in 1 .. Len(y) /\ y[i].name = n /\ \A k \in 1 .. i - 1 : y[k].name # n
    BY <1>1, <2>2
  <2> QED BY <2>3
<1>4. DefinesOf(y) = [n \in D |-> y[First(n)]]
  BY DEF DefinesOf
<1> HIDE DEF D, First
<1>5. \A n \in D : Patterned(y[First(n)])
  BY <1>3, EntriesArePatterned
<1> QED BY <1>2, <1>4, <1>5 DEF Defines

-----------------------------------------------------------------------------
\* A change of the loggers that the configuration does not see: loggers that are made,
\* and appenders it did not give.
Quietly(ls, ms) ==
  /\ ms \in [Names -> Loggers \cup {NoLogger}]
  /\ \A n \in Names :
       /\ ls[n] = NoLogger => ms[n] \in {NoLogger, NewLogger}
       /\ ls[n] # NoLogger =>
            /\ ms[n] # NoLogger /\ ms[n].level = ls[n].level /\ ms[n].formatter = ls[n].formatter
            /\ Given(ms[n]) = Given(ls[n])
Quiet == Quietly(m_loggers, m_loggers')

LEMMA QuietTypes ==
  ASSUME LogTypes, Quiet
  PROVE  \A n \in Names : m_loggers'[n] # NoLogger => m_loggers'[n].formatter \in DOMAIN Made
BY NewLoggerIs DEF LogTypes, Quiet, Quietly

LEMMA QuietStands ==
  ASSUME NEW ls, Quietly(m_loggers, ls), NEW n \in Names, NEW v, Done(v, n)
  PROVE  /\ ls[n] # NoLogger => Stands(ls[n], v, n)
         /\ n \in DOMAIN v => ls[n] # NoLogger
<1>1. CASE m_loggers[n] = NoLogger
  <2>1. n \notin DOMAIN v /\ ls[n] \in {NoLogger, NewLogger}
    BY <1>1 DEF Done, Quietly
  <2> QED BY <2>1, NewLoggerIs DEF Stands
<1>2. CASE m_loggers[n] # NoLogger
  <2>1. Stands(m_loggers[n], v, n)
    BY <1>2 DEF Done
  <2>2. /\ ls[n] # NoLogger /\ ls[n].level = m_loggers[n].level
        /\ ls[n].formatter = m_loggers[n].formatter
        /\ Given(ls[n]) = Given(m_loggers[n])
    BY <1>2 DEF Quietly
  <2> QED BY <2>1, <2>2 DEF Stands, Takes, Matches
<1> QED BY <1>1, <1>2

LEMMA QuietKeeps ==
  ASSUME LoggersInv, ~died, Quiet, UNCHANGED <<m_val, job>>,
         late' \in [Threads -> Names \cup {NoLogger}],
         \A t \in Threads : late'[t] # NoLogger => m_loggers'[late'[t]] # NoLogger
  PROVE  LoggersInv'
<1>1. LogTypes
  BY DEF LoggersInv
<1>2. LogTypes'
  BY <1>1, QuietTypes DEF LogTypes, Quiet, Quietly
<1>3. ASSUME NEW n \in Names, NEW v, Done(v, n)
      PROVE  /\ m_loggers'[n] # NoLogger => Stands(m_loggers'[n], v, n)
             /\ n \in DOMAIN v => m_loggers'[n] # NoLogger
  BY <1>3, QuietStands DEF Quiet
<1>4. CASE job = Idle
  <2>1. \A n \in Names : Done(m_val, n)
    BY <1>4 DEF LoggersInv
  <2>2. job' = Idle /\ \A n \in Names : Done(m_val, n)'
    BY <1>3, <1>4, <2>1 DEF Done
  <2> QED BY <1>2, <2>2 DEF LoggersInv
<1>5. CASE job # Idle
  <2>1. Listening
    BY <1>5 DEF LoggersInv
  <2>2. ASSUME NEW n \in Names, \A i \in 1 .. Len(job.todo) : job.todo[i] # n
        PROVE  Done(job.new, n)'
    <3>1. Done(job.new, n)
      BY <2>1, <2>2 DEF Listening
    <3> QED BY <1>3, <3>1 DEF Done
  <2>3. AtHand => AtHand'
    <3> SUFFICES ASSUME AtHand PROVE AtHand'
      OBVIOUS
    <3> DEFINE n == Head(job.todo)
    <3>1. n \in Names
      <4>1. job.todo \in Seq(Names) /\ job.todo # <<>>
        BY <2>1 DEF Listening, AtHand
      <4> QED BY <4>1
    <3>2. m_loggers[n] # NoLogger
      BY DEF AtHand
    <3> HIDE DEF n
    <3>3. /\ m_loggers'[n] # NoLogger /\ m_loggers'[n].level = m_loggers[n].level
          /\ m_loggers'[n].formatter = m_loggers[n].formatter
          /\ Given(m_loggers'[n]) = Given(m_loggers[n])
      BY <3>1, <3>2 DEF Quiet, Quietly
    <3>4. \A k : Takes(m_loggers[n], job.new[n], k) => Takes(m_loggers'[n], job.new[n], k)
      BY <3>3 DEF Takes, Matches
    <3> QED BY <3>3, <3>4 DEF AtHand, n
  <2>4. Listening'
    BY <2>1, <2>2, <2>3 DEF Listening
  <2> QED BY <1>2, <1>5, <2>4 DEF LoggersInv
<1> QED BY <1>4, <1>5

LEMMA LoggedIsQuiet ==
  ASSUME NEW ls \in [Names -> Loggers \cup {NoLogger}], NEW n \in Names, NEW level
  PROVE  Quietly(ls, Logged(ls, n, level))
<1> DEFINE l == ls[n]
           new == [l EXCEPT !.appenders = <<Stdout(l)>>]
<1>1. CASE ls[n] # NoLogger /\ ls[n].level <= level /\ ls[n].appenders = <<>>
  <2>1. l \in Loggers /\ l.appenders = <<>>
    BY <1>1
  <2>2. Stdout(l) \in Appenders /\ ~Stdout(l).given
    BY <2>1, StdoutIs
  <2>3. Append(l.appenders, Stdout(l)) = <<Stdout(l)>>
    BY <2>1
  <2>4. /\ new \in Loggers /\ new.level = l.level /\ new.formatter = l.formatter
        /\ Given(new) = Given(l)
    BY <2>1, <2>2, <2>3, AppendedIs
  <2>5. Logged(ls, n, level) = [ls EXCEPT ![n] = new]
    BY <1>1 DEF Logged
  <2> HIDE DEF new
  <2>6. new # NoLogger
    BY <2>4, LogAssumption
  <2> QED BY <1>1, <2>4, <2>5, <2>6 DEF Quietly
<1>2. CASE ~(ls[n] # NoLogger /\ ls[n].level <= level /\ ls[n].appenders = <<>>)
  <2>1. Logged(ls, n, level) = ls
    BY <1>2 DEF Logged
  <2> QED BY <2>1 DEF Quietly
<1> QED BY <1>1, <1>2

LEMMA GetLoggerIsQuiet ==
  ASSUME NEW ls \in [Names -> Loggers \cup {NoLogger}], NEW n \in Names
  PROVE  Quietly(ls, getLogger(ls, n)) /\ getLogger(ls, n)[n] # NoLogger
BY NewLoggerIs DEF getLogger, Quietly

LEMMA LogKeeps ==
  ASSUME LoggersInv, ~died, NEW t \in Threads, NEW n \in Names, NEW level, Log(t, n, level)
  PROVE  LoggersInv'
<1>1. LogTypes
  BY DEF LoggersInv
<1> DEFINE ls == getLogger(m_loggers, n)
<1>2. Quietly(m_loggers, ls) /\ ls[n] # NoLogger
  BY <1>1, GetLoggerIsQuiet DEF LogTypes
<1>3. /\ m_loggers' = ls /\ UNCHANGED <<m_val, job>>
      /\ late' = late \/ late' = [late EXCEPT ![t] = n]
  BY DEF Log
<1> HIDE DEF ls
<1>4. late' \in [Threads -> Names \cup {NoLogger}]
  BY <1>1, <1>3 DEF LogTypes
<1>5. ASSUME NEW u \in Threads, late'[u] # NoLogger PROVE m_loggers'[late'[u]] # NoLogger
  <2>1. CASE late'[u] = n
    BY <1>2, <1>3, <2>1
  <2>2. CASE late'[u] # n
    <3>1. late'[u] = late[u]
      BY <1>1, <1>3, <2>2 DEF LogTypes
    <3>2. late[u] \in Names /\ m_loggers[late[u]] # NoLogger
      BY <1>1, <1>5, <3>1 DEF LogTypes
    <3> QED BY <1>2, <1>3, <3>1, <3>2 DEF Quietly
  <2> QED BY <2>1, <2>2
<1> QED BY <1>2, <1>3, <1>4, <1>5, QuietKeeps DEF Quiet

LEMMA LogAddsKeeps ==
  ASSUME LoggersInv, ~died, NEW t \in Threads, LogAdds(t)
  PROVE  LoggersInv'
<1>1. LogTypes
  BY DEF LoggersInv
<1> DEFINE n == late[t]
           l == m_loggers[n]
           new == [l EXCEPT !.appenders = Append(l.appenders, Stdout(l))]
<1>2. n \in Names /\ l # NoLogger /\ l \in Loggers
  BY <1>1 DEF LogAdds, LogTypes
<1>3. /\ new \in Loggers /\ new.level = l.level /\ new.formatter = l.formatter
      /\ Given(new) = Given(l)
  BY <1>2, StdoutIs, AppendedIs
<1>4. /\ m_loggers' = [m_loggers EXCEPT ![n] = new] /\ UNCHANGED <<m_val, job>>
      /\ late' = [late EXCEPT ![t] = NoLogger]
  BY DEF LogAdds
<1> HIDE DEF new
<1>5. new # NoLogger
  BY <1>3, LogAssumption
<1>6. Quiet
  BY <1>1, <1>2, <1>3, <1>4, <1>5 DEF LogTypes, Quiet, Quietly
<1>7. late' \in [Threads -> Names \cup {NoLogger}]
  BY <1>1, <1>4 DEF LogTypes
<1>8. ASSUME NEW u \in Threads, late'[u] # NoLogger PROVE m_loggers'[late'[u]] # NoLogger
  <2>1. late'[u] = late[u] /\ late[u] \in Names /\ m_loggers[late[u]] # NoLogger
    BY <1>1, <1>4, <1>8 DEF LogTypes
  <2> QED BY <1>6, <2>1 DEF Quiet, Quietly
<1> QED BY <1>4, <1>6, <1>7, <1>8, QuietKeeps

\* InOrder has every name of a set of names.
LEMMA InOrderIs ==
  ASSUME NEW S
  PROVE  /\ InOrder(S) \in Seq(Names)
         /\ \A n \in Names \cap S : \E j \in 1 .. Len(InOrder(S)) : InOrder(S)[j] = n
<1>1. LogNames \in Seq(Names) /\ \A n \in Names : \E i \in 1 .. Len(LogNames) : LogNames[i] = n
  BY LogAssumption DEF Names, ToSet
<1> DEFINE q == Only(LogNames, S)
<1>2. /\ q \in Seq(Names)
      /\ \A i \in 1 .. Len(LogNames) : LogNames[i] \in S => \E j \in 1 .. Len(q) : q[j] = LogNames[i]
  BY <1>1, OnlyCovers
<1> HIDE DEF q
<1>3. ASSUME NEW n \in Names \cap S PROVE \E j \in 1 .. Len(q) : q[j] = n
  <2>1. PICK i \in 1 .. Len(LogNames) : LogNames[i] = n
    BY <1>1
  <2>2. LogNames[i] \in S
    BY <2>1
  <2>3. PICK j \in 1 .. Len(q) : q[j] = LogNames[i]
    BY <1>2, <2>2
  <2> QED BY <2>1, <2>3
<1>4. InOrder(S) = q
  BY DEF InOrder, q
<1> QED BY <1>2, <1>3, <1>4

\* A load that starts the listener: it will come to every name of either value, and the
\* loggers of other names are not concerned.
LEMMA LoadLogsStarts ==
  ASSUME LoggersInv, ~died, NEW y \in Yamls, LoadLogs(y)
  PROVE  LoggersInv'
<1> DEFINE v == DefinesOf(y)
           first == InOrder(DOMAIN v)
           gone == InOrder(DOMAIN m_val \ DOMAIN v)
           refused == \E i \in 1 .. Len(y) : ~y[i].complete
<1>1. LogTypes /\ job = Idle /\ \A n \in Names : Done(m_val, n)
  BY DEF LoggersInv, LoadLogs
<1>2. UNCHANGED <<m_val, late, died>>
  BY DEF LoadLogs
<1>3. Quiet
  <2>1. CASE m_loggers' = m_loggers
    BY <1>1, <2>1 DEF Quiet, Quietly, LogTypes
  <2>2. CASE m_loggers' = Logged(m_loggers, Root, INFO)
    BY <1>1, <2>2, LoggedIsQuiet, LogAssumption DEF Quiet, LogTypes
  <2> QED BY <2>1, <2>2 DEF LoadLogs
<1>4. \A t \in Threads : late[t] # NoLogger => late[t] \in Names /\ m_loggers'[late[t]] # NoLogger
  BY <1>1, <1>3 DEF LogTypes, Quiet, Quietly
<1>5. CASE refused \/ SameValue(v, m_val)
  <2>1. UNCHANGED job
    BY <1>5 DEF LoadLogs
  <2>2. late' \in [Threads -> Names \cup {NoLogger}]
    BY <1>1, <1>2 DEF LogTypes
  <2> QED BY <1>2, <1>3, <1>4, <2>1, <2>2, QuietKeeps
<1>6. CASE ~(refused \/ SameValue(v, m_val))
  <2>1. job' = [runs |-> TRUE, todo |-> first \o gone, adds |-> <<>>, new |-> v]
    BY <1>6 DEF LoadLogs
  <2> DEFINE todo == first \o gone
  <2>3. LogTypes'
    BY <1>1, <1>2, <1>3, <1>4, QuietTypes DEF LogTypes, Quiet, Quietly
  <2>5. /\ first \in Seq(Names) /\ gone \in Seq(Names)
        /\ \A n \in Names \cap DOMAIN v : \E j \in 1 .. Len(first) : first[j] = n
        /\ \A n \in Names \cap (DOMAIN m_val \ DOMAIN v) : \E j \in 1 .. Len(gone) : gone[j] = n
    BY InOrderIs
  <2> HIDE DEF first, gone, v
  <2>6. /\ todo \in Seq(Names) /\ Len(todo) = Len(first) + Len(gone)
        /\ \A j \in 1 .. Len(first) : todo[j] = first[j]
        /\ \A j \in 1 .. Len(gone) : todo[Len(first) + j] = gone[j]
        /\ Len(first) \in Nat /\ Len(gone) \in Nat
    BY <2>5
  <2> HIDE DEF todo
  <2>7. \A n \in Names \cap (DOMAIN v \cup DOMAIN m_val) : \E i \in 1 .. Len(todo) : todo[i] = n
    <3>1. ASSUME NEW n \in Names \cap DOMAIN v PROVE \E i \in 1 .. Len(todo) : todo[i] = n
      <4>1. PICK j \in 1 .. Len(first) : first[j] = n
        BY <2>5
      <4>2. j \in 1 .. Len(todo) /\ todo[j] = n
        BY <2>6, <4>1
      <4> QED BY <4>2
    <3>2. ASSUME NEW n \in Names \cap (DOMAIN m_val \ DOMAIN v)
          PROVE  \E i \in 1 .. Len(todo) : todo[i] = n
      <4>1. PICK j \in 1 .. Len(gone) : gone[j] = n
        BY <2>5
      <4>2. Len(first) + j \in 1 .. Len(todo) /\ todo[Len(first) + j] = n
        BY <2>6, <4>1
      <4> QED BY <4>2
    <3> QED BY <3>1, <3>2
  <2>8. /\ job'.todo = todo /\ job'.adds = <<>> /\ job'.new = v /\ job'.runs = TRUE
    BY <2>1 DEF todo
  <2>9. ASSUME NEW n \in Names, \A i \in 1 .. Len(todo) : todo[i] # n
        PROVE  Done(v, n)'
    <3>1. n \notin DOMAIN v /\ n \notin DOMAIN m_val
      BY <2>7, <2>9
    <3>2. m_loggers'[n] # NoLogger => Stands(m_loggers'[n], m_val, n)
      BY <1>1, <1>3, QuietStands DEF Quiet
    <3>3. m_loggers'[n] # NoLogger => Stands(m_loggers'[n], v, n)
      BY <3>1, <3>2 DEF Stands
    <3>4. v' = v
      BY DEF v
    <3> QED BY <3>1, <3>3, <3>4 DEF Done
  <2>10. Defines(v)
    BY DefinesOfIs DEF v
  <2>11. Listening'
    <3>1. v' = v
      BY DEF v
    <3> QED BY <2>6, <2>8, <2>9, <2>10, <3>1 DEF Listening, Done
  <2>12. job' # Idle
    BY <2>8, IdleShape
  <2> QED BY <2>3, <2>11, <2>12 DEF LoggersInv
<1> QED BY <1>5, <1>6

-----------------------------------------------------------------------------
\* The steps of the listener.  One logger gets a new record, and threads may have been
\* told something before: the others stay as they were.
LEMMA ReplacedIs ==
  ASSUME LogTypes, NEW ls, Quietly(m_loggers, ls), NEW n \in Names,
         NEW new \in Loggers, new.formatter \in DOMAIN Made,
         m_loggers' = [ls EXCEPT ![n] = new], UNCHANGED <<m_val, late>>
  PROVE  /\ LogTypes' /\ m_loggers'[n] = new /\ new # NoLogger
         /\ \A x \in Names \ {n} : \A v : Done(v, x) =>
              /\ m_loggers'[x] # NoLogger => Stands(m_loggers'[x], v, x)
              /\ x \in DOMAIN v => m_loggers'[x] # NoLogger
<1>1. ls \in [Names -> Loggers \cup {NoLogger}]
  BY DEF Quietly
<1>2. new # NoLogger
  BY LogAssumption
<1>3. m_loggers' \in [Names -> Loggers \cup {NoLogger}]
  BY <1>1
<1>4. \A x \in Names : m_loggers'[x] = IF x = n THEN new ELSE ls[x]
  BY <1>1
<1>5. ASSUME NEW x \in Names, m_loggers'[x] # NoLogger PROVE m_loggers'[x].formatter \in DOMAIN Made
  <2>1. CASE x = n
    BY <1>4, <2>1
  <2>2. CASE x # n
    <3>1. m_loggers'[x] = ls[x]
      BY <1>4, <2>2
    <3> QED BY <1>5, <3>1, NewLoggerIs DEF LogTypes, Quietly
  <2> QED BY <2>1, <2>2
<1>6. ASSUME NEW t \in Threads, late[t] # NoLogger PROVE m_loggers'[late[t]] # NoLogger
  <2>1. late[t] \in Names /\ m_loggers[late[t]] # NoLogger
    BY <1>6 DEF LogTypes
  <2> QED BY <1>2, <1>4, <2>1 DEF Quietly
<1>7. LogTypes'
  BY <1>3, <1>5, <1>6 DEF LogTypes
<1>8. ASSUME NEW x \in Names \ {n}, NEW v, Done(v, x)
      PROVE  /\ m_loggers'[x] # NoLogger => Stands(m_loggers'[x], v, x)
             /\ x \in DOMAIN v => m_loggers'[x] # NoLogger
  BY <1>4, <1>8, QuietStands
<1> QED BY <1>2, <1>4, <1>7, <1>8

\* The logger at hand is done, the listener goes on to the next name.
LEMMA MovesOn ==
  ASSUME Listening, job.todo # <<>>, NEW new,
         m_loggers'[Head(job.todo)] = new, new # NoLogger,
         Stands(new, job.new, Head(job.todo)),
         \A x \in Names \ {Head(job.todo)} : \A v : Done(v, x) =>
            /\ m_loggers'[x] # NoLogger => Stands(m_loggers'[x], v, x)
            /\ x \in DOMAIN v => m_loggers'[x] # NoLogger,
         job'.todo = Tail(job.todo), job'.adds = <<>>, job'.new = job.new
  PROVE  Listening'
<1> DEFINE n == Head(job.todo)
<1>1. /\ job.todo \in Seq(Names) /\ n \in Names /\ Tail(job.todo) \in Seq(Names)
      /\ Len(Tail(job.todo)) = Len(job.todo) - 1 /\ Len(job.todo) \in Nat \ {0} /\ n = job.todo[1]
      /\ \A i \in 1 .. Len(job.todo) - 1 : Tail(job.todo)[i] = job.todo[i + 1]
  BY DEF Listening
<1>2. ASSUME NEW x \in Names, \A i \in 1 .. Len(Tail(job.todo)) : Tail(job.todo)[i] # x
      PROVE  Done(job.new, x)'
  <2>1. CASE x = n
    BY <2>1 DEF Done
  <2>2. CASE x # n
    <3>1. ASSUME NEW i \in 1 .. Len(job.todo) PROVE job.todo[i] # x
      <4>1. CASE i = 1
        BY <1>1, <2>2, <4>1
      <4>2. CASE i # 1
        <5>1. i - 1 \in 1 .. Len(Tail(job.todo)) /\ (i - 1) + 1 = i
          BY <1>1, <4>2
        <5>2. Tail(job.todo)[i - 1] = job.todo[i]
          BY <1>1, <5>1
        <5> QED BY <1>2, <5>1, <5>2
      <4> QED BY <4>1, <4>2
    <3>2. Done(job.new, x)
      BY <3>1 DEF Listening
    <3> QED BY <2>2, <3>2 DEF Done
  <2> QED BY <2>1, <2>2
<1> QED BY <1>1, <1>2 DEF Listening

\* It goes on with the appenders of the logger at hand.
LEMMA StaysAt ==
  ASSUME Listening, job.todo # <<>>,
         \A x \in Names \ {Head(job.todo)} : \A v : Done(v, x) =>
            /\ m_loggers'[x] # NoLogger => Stands(m_loggers'[x], v, x)
            /\ x \in DOMAIN v => m_loggers'[x] # NoLogger,
         job'.todo = job.todo, job'.new = job.new,
         job'.adds \in Seq(AppenderDefs), AtHand'
  PROVE  Listening'
<1>1. job.todo \in Seq(Names) /\ Head(job.todo) = job.todo[1] /\ 1 \in 1 .. Len(job.todo)
  BY DEF Listening
<1>2. ASSUME NEW x \in Names, \A i \in 1 .. Len(job.todo) : job.todo[i] # x
      PROVE  Done(job.new, x)'
  <2>1. Done(job.new, x) /\ x # Head(job.todo)
    BY <1>1, <1>2 DEF Listening
  <2> QED BY <2>1 DEF Done
<1> QED BY <1>1, <1>2 DEF Listening

LEMMA EmptyIs ==
  ASSUME NEW level \in Nat, NEW formatter \in Seq(STRING), NEW m,
         m = [level |-> level, formatter |-> formatter, appenders |-> <<>>]
  PROVE  m \in Loggers /\ m.level = level /\ m.formatter = formatter /\ Given(m) = <<>>
BY OnlyOfEmpty DEF Given, Loggers

LEMMA ClearedIs ==
  ASSUME NEW l \in Loggers, NEW level \in Nat, NEW formatter \in Seq(STRING)
  PROVE  /\ Cleared([l EXCEPT !.level = level, !.formatter = formatter])
              = [level |-> level, formatter |-> formatter, appenders |-> <<>>]
         /\ Cleared([l EXCEPT !.level = level])
              = [level |-> level, formatter |-> l.formatter, appenders |-> <<>>]
<1>1. Cleared([l EXCEPT !.level = level, !.formatter = formatter])
        = [level |-> level, formatter |-> formatter, appenders |-> <<>>]
  <2>1. [l EXCEPT !.level = level, !.formatter = formatter]
          = [level |-> level, formatter |-> formatter, appenders |-> l.appenders]
    <3>1. [l EXCEPT !.level = level]
            = [level |-> level, formatter |-> l.formatter, appenders |-> l.appenders]
      BY LoggerIs
    <3>2. [[level |-> level, formatter |-> l.formatter, appenders |-> l.appenders]
             EXCEPT !.formatter = formatter]
            = [level |-> level, formatter |-> formatter, appenders |-> l.appenders]
      OBVIOUS
    <3>3. [l EXCEPT !.level = level, !.formatter = formatter]
            = [[l EXCEPT !.level = level] EXCEPT !.formatter = formatter]
      BY Zenon
    <3> QED BY <3>1, <3>2, <3>3, Zenon
  <2>2. [[level |-> level, formatter |-> formatter, appenders |-> l.appenders]
           EXCEPT !.appenders = <<>>]
          = [level |-> level, formatter |-> formatter, appenders |-> <<>>]
    OBVIOUS
  <2> QED BY <2>1, <2>2, Zenon DEF Cleared
<1>2. Cleared([l EXCEPT !.level = level])
        = [level |-> level, formatter |-> l.formatter, appenders |-> <<>>]
  <2>1. [l EXCEPT !.level = level]
          = [level |-> level, formatter |-> l.formatter, appenders |-> l.appenders]
    BY LoggerIs
  <2>2. [[level |-> level, formatter |-> l.formatter, appenders |-> l.appenders]
           EXCEPT !.appenders = <<>>]
          = [level |-> level, formatter |-> l.formatter, appenders |-> <<>>]
    OBVIOUS
  <2> QED BY <2>1, <2>2, Zenon DEF Cleared
<1> QED BY <1>1, <1>2

LEMMA NextLoggerKeeps ==
  ASSUME LoggersInv, LoadInv, ~died, NextLogger
  PROVE  LoggersInv'
<1> DEFINE n == Head(job.todo)
           ls == getLogger(m_loggers, n)
           d == job.new[n]
           kept == n \in DOMAIN job.new /\ n \in DOMAIN m_val /\ SameDefine(d, m_val[n])
<1>1. LogTypes /\ Listening /\ job # Idle /\ job.adds = <<>> /\ job.todo # <<>> /\ job.runs = TRUE
      /\ JobShape /\ UNCHANGED <<m_val, late>>
  BY DEF LoggersInv, LoadInv, NextLogger
<1>2. n \in Names
  BY <1>1 DEF Listening
<1>3. Quietly(m_loggers, ls) /\ ls[n] # NoLogger
  BY <1>1, <1>2, GetLoggerIsQuiet DEF LogTypes
<1>4. ls[n] \in Loggers /\ ls[n].formatter \in DOMAIN Made
  <2>1. ls[n] \in Loggers
    BY <1>2, <1>3 DEF Quietly
  <2>2. ls[n].formatter \in DOMAIN Made
    <3>1. CASE m_loggers[n] = NoLogger
      BY <1>2, <1>3, <3>1, NewLoggerIs DEF Quietly
    <3>2. CASE m_loggers[n] # NoLogger
      BY <1>1, <1>2, <1>3, <3>2 DEF Quietly, LogTypes
    <3> QED BY <3>1, <3>2
  <2> QED BY <2>1, <2>2
<1>5. CASE kept
  <2>1. died' = TRUE
    BY <1>5 DEF NextLogger
  <2> QED BY <2>1 DEF LoggersInv
<1>6. CASE ~kept /\ n \in DOMAIN job.new
  <2> DEFINE f == Accepted(d.formatter, ls[n].formatter)
             new == Cleared([ls[n] EXCEPT !.level = d.level, !.formatter = f])
  <2>1. Patterned(d)
    BY <1>1, <1>6 DEF Listening, Defines
  <2>2. /\ m_loggers' = [ls EXCEPT ![n] = new]
        /\ job' = IF d.appenders = <<>> THEN [job EXCEPT !.todo = Tail(job.todo)]
                  ELSE [job EXCEPT !.adds = d.appenders]
    BY <1>6 DEF NextLogger
  <2> HIDE DEF n, ls, d
  <2>3. f = IF d.formatter \in DOMAIN Made THEN d.formatter ELSE ls[n].formatter
    BY <2>1, EntryIs, AcceptedIs
  <2>4. f \in Seq(STRING) /\ f \in DOMAIN Made
    BY <1>4, <2>1, <2>3, EntryIs, LoggerIs
  <2>5. f = d.formatter \/ d.formatter \notin DOMAIN Made
    BY <2>3
  <2> HIDE DEF f
  <2>6. new \in Loggers /\ new.level = d.level /\ new.formatter = f /\ Given(new) = <<>>
    <3>1. d.level \in Nat
      BY <2>1, EntryIs
    <3> DEFINE l == ls[n]
               v == d.level
    <3>2. l \in Loggers /\ v \in Nat /\ f \in Seq(STRING)
      BY <1>4, <2>4, <3>1
    <3>3. new = [level |-> v, formatter |-> f, appenders |-> <<>>]
      BY <3>2, ClearedIs, Zenon
    <3> HIDE DEF l, v, new
    <3>4. new \in Loggers /\ new.level = v /\ new.formatter = f /\ Given(new) = <<>>
      BY <3>2, <3>3, EmptyIs
    <3> QED BY <3>4 DEF v
  <2> HIDE DEF new
  <2>7. LogTypes' /\ m_loggers'[n] = new /\ new # NoLogger
        /\ \A x \in Names \ {n} : \A v : Done(v, x) =>
             /\ m_loggers'[x] # NoLogger => Stands(m_loggers'[x], v, x)
             /\ x \in DOMAIN v => m_loggers'[x] # NoLogger
    BY <1>1, <1>2, <1>3, <2>2, <2>4, <2>6, ReplacedIs
  <2>8. Takes(new, d, 0)
    BY <2>5, <2>6 DEF Takes
  <2>9. d.appenders \in Seq(AppenderDefs)
    BY <2>1, EntryIs
  <2>10. CASE d.appenders = <<>>
    <3>1. /\ job'.todo = Tail(job.todo) /\ job'.adds = <<>> /\ job'.new = job.new
          /\ job'.runs = TRUE
      BY <1>1, <2>2, <2>10 DEF JobShape
    <3>2. Stands(new, job.new, n)
      BY <1>6, <2>8, <2>10 DEF Stands, d
    <3>3. Listening'
      BY <1>1, <2>7, <3>1, <3>2, MovesOn DEF n
    <3> QED BY <2>7, <3>1, <3>3, IdleShape DEF LoggersInv
  <2>11. CASE d.appenders # <<>>
    <3>1. /\ job'.todo = job.todo /\ job'.adds = d.appenders /\ job'.new = job.new
          /\ job'.runs = TRUE
      BY <1>1, <2>2, <2>11 DEF JobShape
    <3>2. /\ Len(d.appenders) - Len(d.appenders) = 0
          /\ \A i \in 1 .. Len(d.appenders) : d.appenders[i] = d.appenders[0 + i]
      BY <2>9
    <3>3. AtHand'
      BY <1>1, <1>6, <2>7, <2>8, <3>1, <3>2 DEF AtHand, n, d
    <3>4. Listening'
      BY <1>1, <2>7, <2>9, <3>1, <3>3, StaysAt DEF n
    <3> QED BY <2>7, <3>1, <3>4, IdleShape DEF LoggersInv
  <2> QED BY <2>10, <2>11
<1>7. CASE n \notin DOMAIN job.new
  <2> DEFINE new == Cleared([ls[n] EXCEPT !.level = UNKNOWN])
  <2>1. /\ m_loggers' = [ls EXCEPT ![n] = new]
        /\ job' = [job EXCEPT !.todo = Tail(job.todo)]
    BY <1>7 DEF NextLogger
  <2> HIDE DEF n, ls
  <2>2. /\ new \in Loggers /\ new.level = UNKNOWN /\ new.formatter = ls[n].formatter
        /\ Given(new) = <<>>
    <3>1. UNKNOWN \in Nat /\ ls[n].formatter \in Seq(STRING)
      BY <1>4, LoggerIs DEF UNKNOWN
    <3>2. new = [level |-> UNKNOWN, formatter |-> ls[n].formatter, appenders |-> <<>>]
      BY <1>4, <3>1, ClearedIs, Zenon
    <3> HIDE DEF new
    <3> QED BY <3>1, <3>2, EmptyIs
  <2> HIDE DEF new
  <2>3. LogTypes' /\ m_loggers'[n] = new /\ new # NoLogger
        /\ \A x \in Names \ {n} : \A v : Done(v, x) =>
             /\ m_loggers'[x] # NoLogger => Stands(m_loggers'[x], v, x)
             /\ x \in DOMAIN v => m_loggers'[x] # NoLogger
    BY <1>1, <1>2, <1>3, <1>4, <2>1, <2>2, ReplacedIs
  <2>4. /\ job'.todo = Tail(job.todo) /\ job'.adds = <<>> /\ job'.new = job.new
        /\ job'.runs = TRUE
    BY <1>1, <2>1 DEF JobShape
  <2>5. Stands(new, job.new, n)
    BY <1>7, <2>2 DEF Stands
  <2>6. Listening'
    BY <1>1, <2>3, <2>4, <2>5, MovesOn DEF n
  <2> QED BY <2>3, <2>4, <2>6, IdleShape DEF LoggersInv
<1> QED BY <1>5, <1>6, <1>7

LEMMA NextAppenderKeeps ==
  ASSUME LoggersInv, LoadInv, ~died, NextAppender
  PROVE  LoggersInv'
<1> DEFINE n == Head(job.todo)
           a == Head(job.adds)
           d == job.new[n]
           k == Len(d.appenders) - Len(job.adds)
           wrong == a.formatter # <<>> /\ init(a.formatter).isError
           ls == IF wrong THEN Logged(m_loggers, Root, INFO) ELSE m_loggers
           ap == [type |-> a.type, level |-> a.level, formatter |-> Accepted(a.formatter, <<>>),
                  given |-> TRUE]
           l == ls[n]
           f == IF ap.formatter = <<>> THEN l.formatter ELSE ap.formatter
           b == [ap EXCEPT !.formatter = f]
           new == [l EXCEPT !.appenders = Append(l.appenders, b)]
<1>1. LogTypes /\ Listening /\ job # Idle /\ job.adds # <<>> /\ job.runs = TRUE
      /\ JobShape /\ UNCHANGED <<m_val, late>> /\ AtHand
  BY DEF LoggersInv, LoadInv, NextAppender, Listening
<1>2. job.todo # <<>> /\ n \in Names /\ n \in DOMAIN job.new /\ m_loggers[n] # NoLogger
  BY <1>1 DEF Listening, AtHand
<1>3. CASE a.type = 0
  <2>1. died' = TRUE
    BY <1>3 DEF NextAppender
  <2> QED BY <2>1 DEF LoggersInv
<1>4. CASE a.type # 0
  <2>1. Patterned(d) /\ k \in Nat /\ Takes(m_loggers[n], d, k)
        /\ \A i \in 1 .. Len(job.adds) : job.adds[i] = d.appenders[k + i]
    BY <1>1, <1>2 DEF Listening, Defines, AtHand
  <2>2. /\ m_loggers' = [ls EXCEPT ![n] = addAppender(l, ap)]
        /\ job' = [job EXCEPT !.adds = Tail(job.adds),
                              !.todo = IF Len(job.adds) = 1 THEN Tail(job.todo) ELSE job.todo]
    BY <1>4 DEF NextAppender
  <2>3. job.adds \in Seq(AppenderDefs)
        /\ Len(job.adds) \in Nat \ {0} /\ a = job.adds[1]
        /\ a \in AppenderDefs
    BY <1>1 DEF Listening
  <2>4. /\ d.appenders \in Seq(AppenderDefs)
        /\ Len(d.appenders) \in Nat /\ k + 1 \in 1 .. Len(d.appenders) /\ a = d.appenders[k + 1]
        /\ a.formatter \in Patterns
    <3>1. /\ d.appenders \in Seq(AppenderDefs)
          /\ \A i \in 1 .. Len(d.appenders) : d.appenders[i].formatter \in Patterns
      BY <2>1, EntryIs
    <3>2. Len(d.appenders) \in Nat
      BY <3>1
    <3> HIDE DEF d, a
    <3>3. k + 1 \in 1 .. Len(d.appenders)
      <4>1. Len(job.adds) \in Nat \ {0} /\ k \in Nat /\ k = Len(d.appenders) - Len(job.adds)
        BY <2>1, <2>3
      <4> DEFINE all == Len(d.appenders)
                 left == Len(job.adds)
      <4>2. left \in Nat \ {0} /\ k \in Nat /\ k = all - left /\ all \in Nat
        BY <3>2, <4>1
      <4> HIDE DEF k, all, left
      <4>3. k + 1 \in 1 .. all
        BY <4>2
      <4> QED BY <4>3 DEF all
    <3>4. a = d.appenders[k + 1]
      <4>1. 1 \in 1 .. Len(job.adds) /\ a = job.adds[1]
        BY <2>3
      <4> HIDE DEF k
      <4> QED BY <2>1, <4>1
    <3> QED BY <3>1, <3>2, <3>3, <3>4
  <2>5. addAppender(l, ap) = new
    <3> HIDE DEF ap
    <3> QED BY Zenon DEF addAppender
  <2>6. Quietly(m_loggers, ls)
    <3>1. Quietly(m_loggers, Logged(m_loggers, Root, INFO))
      BY <1>1, LoggedIsQuiet, LogAssumption DEF LogTypes
    <3>2. Quietly(m_loggers, m_loggers)
      BY <1>1 DEF LogTypes, Quietly
    <3> QED BY <3>1, <3>2
  <2> HIDE DEF ls
  <2>7. /\ l \in Loggers /\ l.formatter \in DOMAIN Made /\ Takes(l, d, k)
    <3>1. /\ l \in Loggers /\ l.level = m_loggers[n].level /\ l.formatter = m_loggers[n].formatter
          /\ Given(l) = Given(m_loggers[n])
      BY <1>2, <2>6 DEF Quietly
    <3> HIDE DEF l, d, k
    <3> QED BY <1>1, <1>2, <2>1, <3>1 DEF Takes, Matches, LogTypes
  <2>8. f = (IF a.formatter \in DOMAIN Made THEN a.formatter ELSE l.formatter) /\ f \in Seq(STRING)
    <3>1. ap.formatter = IF a.formatter \in DOMAIN Made THEN a.formatter ELSE <<>>
      BY <2>4, AcceptedIs
    <3>2. a.formatter \in DOMAIN Made => a.formatter # <<>>
      BY MadeAssumption
    <3>3. l.formatter \in Seq(STRING) /\ a.formatter \in Seq(STRING)
      <4>1. a.formatter \in Seq(STRING)
        BY <2>3 DEF AppenderDefs
      <4> QED BY <2>7, <4>1, LoggerIs
    <3> QED BY <3>1, <3>2, <3>3
  <2> HIDE DEF n, a, d, k, l, f
  <2>9. b \in Appenders /\ b.given = TRUE /\ b.type = a.type /\ b.level = a.level /\ b.formatter = f
    <3>1. a.type \in Nat /\ a.level \in Nat
      BY <2>3 DEF AppenderDefs
    <3>2. ap.formatter \in Seq(STRING)
      <4>1. ap.formatter = IF a.formatter \in DOMAIN Made THEN a.formatter ELSE <<>>
        BY <2>4, AcceptedIs
      <4>2. a.formatter \in Seq(STRING) /\ <<>> \in Seq(STRING)
        BY <2>3 DEF AppenderDefs
      <4> HIDE DEF ap
      <4> QED BY <4>1, <4>2
    <3>3. ap \in Appenders /\ ap.given = TRUE /\ ap.type = a.type /\ ap.level = a.level
      BY <3>1, <3>2 DEF Appenders
    <3> HIDE DEF ap
    <3> QED BY <2>8, <3>3 DEF Appenders
  <2> HIDE DEF b
  <2>10. /\ new \in Loggers /\ new.level = l.level /\ new.formatter = l.formatter
         /\ Given(new) = Append(Given(l), b)
    BY <2>7, <2>9, AppendedIs
  <2> HIDE DEF new
  <2>11. Takes(new, d, k + 1)
    <3>1. Given(l) \in Seq(Appenders) /\ Len(Given(l)) = k
      BY <2>7, GivenIsSeq DEF Takes
    <3>2. /\ Len(Given(new)) = k + 1 /\ Given(new)[k + 1] = b
          /\ \A i \in 1 .. k : Given(new)[i] = Given(l)[i]
      BY <2>9, <2>10, <3>1
    <3>3. ASSUME NEW i \in 1 .. k + 1 PROVE Matches(Given(new)[i], d.appenders[i], new)
      <4>1. CASE i = k + 1
        BY <2>4, <2>8, <2>9, <2>10, <3>2, <4>1 DEF Matches
      <4>2. CASE i # k + 1
        <5>1. i \in 1 .. k
          BY <2>1, <4>2
        <5>2. Matches(Given(l)[i], d.appenders[i], l)
          BY <2>7, <5>1 DEF Takes
        <5> QED BY <2>10, <3>2, <5>1, <5>2 DEF Matches
      <4> QED BY <4>1, <4>2
    <3> QED BY <2>7, <2>10, <3>2, <3>3 DEF Takes
  <2>12. LogTypes' /\ m_loggers'[n] = new /\ new # NoLogger
        /\ \A x \in Names \ {n} : \A v : Done(v, x) =>
             /\ m_loggers'[x] # NoLogger => Stands(m_loggers'[x], v, x)
             /\ x \in DOMAIN v => m_loggers'[x] # NoLogger
    <3>1. m_loggers' = [ls EXCEPT ![n] = new]
      BY <2>2, <2>5
    <3>2. new.formatter \in DOMAIN Made
      BY <2>7, <2>10
    <3>3. n \in Names /\ new \in Loggers
      BY <1>2, <2>10
    <3>4. LogTypes /\ UNCHANGED <<m_val, late>>
      BY <1>1
    <3> HIDE DEF ap, wrong
    <3> QED BY <2>6, <3>1, <3>2, <3>3, <3>4, ReplacedIs
  <2>13. CASE Len(job.adds) = 1
    <3>1. /\ job'.todo = Tail(job.todo) /\ job'.adds = Tail(job.adds) /\ job'.new = job.new
          /\ job'.runs = TRUE
      BY <1>1, <2>2, <2>13 DEF JobShape
    <3>2. Tail(job.adds) = <<>>
      <4>1. Tail(job.adds) \in Seq(AppenderDefs) /\ Len(Tail(job.adds)) = 0
        BY <2>3, <2>13
      <4> DEFINE rest == Tail(job.adds)
      <4>2. rest \in Seq(AppenderDefs) /\ Len(rest) = 0
        BY <4>1
      <4> HIDE DEF rest
      <4>3. rest = <<>>
        BY <4>2
      <4> QED BY <4>3 DEF rest
    <3>3. k + 1 = Len(d.appenders)
      BY <2>4, <2>13 DEF k
    <3>4. Stands(new, job.new, n)
      BY <1>2, <2>11, <3>3 DEF Stands, d
    <3>5. Listening'
      BY <1>1, <1>2, <2>12, <3>1, <3>2, <3>4, MovesOn DEF n
    <3> QED BY <2>12, <3>1, <3>5, IdleShape DEF LoggersInv
  <2>14. CASE Len(job.adds) # 1
    <3>1. /\ job'.todo = job.todo /\ job'.adds = Tail(job.adds) /\ job'.new = job.new
          /\ job'.runs = TRUE
      BY <1>1, <2>2, <2>14 DEF JobShape
    <3> DEFINE rest == Tail(job.adds)
    <3>2. /\ rest \in Seq(AppenderDefs)
          /\ Len(rest) = Len(job.adds) - 1 /\ \A i \in 1 .. Len(rest) : rest[i] = job.adds[i + 1]
      BY <2>3
    <3> HIDE DEF rest
    <3>3. Len(d.appenders) - Len(rest) = k + 1
      BY <2>3, <2>4, <3>2 DEF k
    <3>4. ASSUME NEW i \in 1 .. Len(rest) PROVE rest[i] = d.appenders[(k + 1) + i]
      <4>1. rest[i] = job.adds[i + 1] /\ i + 1 \in 1 .. Len(job.adds)
        BY <2>3, <3>2
      <4>2. job.adds[i + 1] = d.appenders[k + (i + 1)] /\ k + (i + 1) = (k + 1) + i
        BY <2>1, <4>1
      <4> QED BY <4>1, <4>2
    <3>5. AtHand'
      <4>1. k + 1 \in Nat
        BY <2>1
      <4> DEFINE adds == job'.adds
      <4>2. adds = rest
        BY <3>1 DEF rest
      <4>3. Head(job'.todo) = n /\ job'.new[n] = d /\ n \in DOMAIN job'.new /\ job'.todo # <<>>
        BY <1>2, <3>1 DEF n, d
      <4>4. Len(job'.new[n].appenders) - Len(job'.adds) = k + 1
        BY <3>3, <4>2, <4>3
      <4>5. Takes(m_loggers'[n], job'.new[n], k + 1) /\ m_loggers'[n] # NoLogger
        BY <2>11, <2>12, <4>3
      <4>6. \A i \in 1 .. Len(job'.adds) : job'.adds[i] = job'.new[n].appenders[(k + 1) + i]
        BY <3>4, <4>2, <4>3
      <4> HIDE DEF k, d, n, adds
      <4> QED BY <4>1, <4>3, <4>4, <4>5, <4>6 DEF AtHand
    <3>6. Listening'
      BY <1>1, <1>2, <2>12, <3>1, <3>2, <3>5, StaysAt DEF n, rest
    <3> QED BY <2>12, <3>1, <3>6, IdleShape DEF LoggersInv
  <2> QED BY <2>13, <2>14
<1> QED BY <1>3, <1>4

LEMMA AssignKeeps ==
  ASSUME LoggersInv, ~died, Assign
  PROVE  LoggersInv'
<1>1. LogTypes /\ Listening /\ job # Idle /\ job.todo = <<>>
  BY DEF LoggersInv, Assign
<1>2. m_val' = job.new /\ job' = Idle /\ UNCHANGED <<m_loggers, late, died>>
  BY DEF Assign
<1>3. \A n \in Names : Done(job.new, n)
  BY <1>1 DEF Listening
<1>4. LogTypes' /\ \A n \in Names : Done(m_val, n)'
  BY <1>1, <1>2, <1>3 DEF LogTypes, Listening, Done
<1> QED BY <1>2, <1>4 DEF LoggersInv

LEMMA LoggersStart == Init => LoggersInv
<1> SUFFICES ASSUME Init PROVE LoggersInv
  OBVIOUS
<1> DEFINE root == [NewLogger EXCEPT !.appenders = <<Stdout(NewLogger)>>]
<1>1. /\ m_val = NoDefines /\ job = Idle /\ late = [t \in Threads |-> NoLogger]
      /\ m_loggers = [n \in Names |-> IF n = Root THEN root ELSE NoLogger]
  BY DEF Init
<1>2. /\ root \in Loggers /\ root.level = INFO /\ root.formatter = NewLogger.formatter
      /\ Given(root) = <<>>
  <2>1. NewLogger.appenders = <<>> /\ NewLogger \in Loggers
    BY NewLoggerIs
  <2>2. Append(NewLogger.appenders, Stdout(NewLogger)) = <<Stdout(NewLogger)>>
    BY <2>1
  <2> QED BY <2>1, <2>2, NewLoggerIs, StdoutIs, AppendedIs
<1> HIDE DEF root
<1>3. DOMAIN m_val = {}
  BY <1>1 DEF NoDefines
<1>4. LogTypes
  BY <1>1, <1>2, <1>3, NewLoggerIs DEF LogTypes, Defines
<1>5. \A n \in Names : Done(m_val, n)
  BY <1>1, <1>2, <1>3 DEF Done, Stands
<1> QED BY <1>1, <1>4, <1>5 DEF LoggersInv

LEMMA LoggersStep == ASSUME LoggersInv, LoadInv, [Next]_vars PROVE LoggersInv'
<1>1. CASE ~died /\ LogNext
  BY <1>1, LoadLogsStarts, NextLoggerKeeps, NextAppenderKeeps, AssignKeeps, LogKeeps,
     LogAddsKeeps DEF LogNext
<1>2. CASE UNCHANGED logVars
  BY <1>2 DEF logVars, LoggersInv, LogTypes, Done, Listening, AtHand
<1> QED BY <1>1, <1>2 DEF Next, vars

\* Between two loads every logger stands as the value of "logs" says (the listener of
\* LogIniter), its patterns as LogFormatter takes them, whatever is loaded and whatever
\* other threads log meanwhile, for any names, configurations and threads.
THEOREM LoggersFollowConfigHolds == Spec => []LoggersFollowConfig
<1>1. LoggersInv => LoggersFollowConfig
  <2> SUFFICES ASSUME LoggersInv, job = Idle, ~died, NEW n \in Names, m_loggers[n] # NoLogger
               PROVE  LET l == m_loggers[n]
                          given == Given(l)
                          d == m_val[n]
                      IN /\ init(l.formatter).items = Made[l.formatter]
                         /\ n \notin DOMAIN m_val => given = <<>> /\ l.level \in {INFO, UNKNOWN}
                         /\ n \in DOMAIN m_val =>
                              /\ l.level = d.level
                              /\ l.formatter = d.formatter \/ d.formatter \notin DOMAIN Made
                              /\ Len(given) = Len(d.appenders)
                              /\ \A i \in 1 .. Len(given) :
                                   LET a == d.appenders[i]
                                   IN /\ given[i].type = a.type /\ given[i].level = a.level
                                      /\ given[i].formatter =
                                           (IF a.formatter \in DOMAIN Made THEN a.formatter
                                            ELSE l.formatter)
    BY DEF LoggersFollowConfig
  <2>1. Stands(m_loggers[n], m_val, n)
    BY DEF LoggersInv, Done
  <2>2. init(m_loggers[n].formatter).items = Made[m_loggers[n].formatter]
    BY MadeAssumption DEF LoggersInv, LogTypes
  <2> QED BY <2>1, <2>2 DEF Stands, Takes, Matches
<1> QED BY <1>1, LoggersStart, LoggersStep, LoadStarts, LoadStep, PTL DEF Spec
=============================================================================
