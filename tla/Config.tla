------------------------------- MODULE Config -------------------------------
(***************************************************************************)
(* Config and ConfigVar of fatdog/config.h: variables by name, each of one *)
(* type, with listeners that are told of a change before it is made.       *)
(*                                                                         *)
(* Values are what LexicalCast makes of a text; a text that it refuses is  *)
(* Refused.  The variable "logs" is in LogConfig.  Nothing here takes a    *)
(* lock: the calls come from one thread.                                   *)
(***************************************************************************)
EXTENDS Naturals, Sequences, FiniteSets

CONSTANTS
  VarNames,    \* names lookUp() is called with
  Types,
  Values,
  Refused,     \* a text no type takes
  LowerName,   \* tolower of a name
  NoVar,
  MaxSteps     \* bound: calls that change a variable

\* A variable: its type, its value and the ids of its listeners.
ConfigVars == [type : Types, m_val : Values, m_cbs : SUBSET Nat]

ASSUME ConfigAssumption == NoVar \notin ConfigVars /\ MaxSteps \in Nat

VARIABLES
  GetDatas,    \* name -> [type, m_val, m_cbs] or NoVar
  s_fun_id,    \* type -> the last id addListener gave
  told,        \* history: <<name, id>> -> [old, new] of the listener's last call
  threw,       \* history: a listener threw an exception
  steps

configVars == <<GetDatas, s_fun_id, told, threw, steps>>

ConfigInit ==
  /\ GetDatas = [n \in VarNames |-> NoVar]
  /\ s_fun_id = [t \in Types |-> 0]
  /\ told = [x \in {} |-> NoVar]
  /\ threw = FALSE
  /\ steps = 0

-----------------------------------------------------------------------------
\* Mutated forms of the definitions below, one plausible slip each.
MutOldValue(var, v) == v

-----------------------------------------------------------------------------
Counted == steps < MaxSteps /\ steps' = steps + 1

Known(n) == GetDatas[n] # NoVar

\* lookUp with a default: a variable that exists stays, of whatever type it is.
lookUp(n, t, v) ==
  /\ Counted
  /\ GetDatas' = IF Known(n) THEN GetDatas
                 ELSE [GetDatas EXCEPT ![n] = [type |-> t, m_val |-> v, m_cbs |-> {}]]
  /\ UNCHANGED <<s_fun_id, told, threw>>

\* The ids are counted per type of ConfigVar (a static variable of its addListener).
addListener(n) ==
  LET id == s_fun_id[GetDatas[n].type] + 1
  IN /\ Counted /\ Known(n)
     /\ s_fun_id' = [s_fun_id EXCEPT ![GetDatas[n].type] = id]
     /\ GetDatas' = [GetDatas EXCEPT ![n].m_cbs = @ \cup {id}]
     /\ told' = [x \in DOMAIN told \cup {<<n, id>>} |->
                   IF x = <<n, id>> THEN [old |-> GetDatas[n].m_val, new |-> GetDatas[n].m_val]
                   ELSE told[x]]
     /\ UNCHANGED threw

delListener(n, id) ==
  /\ Counted /\ Known(n) /\ id \in GetDatas[n].m_cbs
  /\ GetDatas' = [GetDatas EXCEPT ![n].m_cbs = @ \ {id}]
  /\ told' = [x \in DOMAIN told \ {<<n, id>>} |-> told[x]]
  /\ UNCHANGED <<s_fun_id, threw>>

\* What the listeners get as the old value while m_val is about to become v.
OldValue(var, v) == var.m_val

\* setValue: the listeners up to the one that throws are told, in the order of their
\* ids; the value is assigned when all of them returned.
setValue(n, v, thrower) ==
  LET var == GetDatas[n]
      called == {id \in var.m_cbs : thrower = 0 \/ id <= thrower}
  IN IF v = var.m_val THEN thrower = 0 /\ UNCHANGED <<GetDatas, told, threw>>
     ELSE /\ thrower \in {0} \cup var.m_cbs
          /\ told' = [x \in DOMAIN told |->
                        IF x[1] = n /\ x[2] \in called
                        THEN [old |-> OldValue(var, v), new |-> v] ELSE told[x]]
          /\ GetDatas' = IF thrower = 0 THEN [GetDatas EXCEPT ![n].m_val = v] ELSE GetDatas
          /\ threw' = (threw \/ thrower # 0)

\* One key of LoadFromYaml: the variable of its name in lower case, if there is one;
\* fromString catches what the conversion and the listeners throw.
LoadFromYaml(key, v, thrower) ==
  /\ Counted
  /\ UNCHANGED s_fun_id
  /\ IF LowerName[key] \in VarNames /\ Known(LowerName[key]) /\ v # Refused
     THEN setValue(LowerName[key], v, thrower)
     ELSE thrower = 0 /\ UNCHANGED <<GetDatas, told, threw>>

ConfigNext ==
  \/ \E n \in VarNames, t \in Types, v \in Values : lookUp(n, t, v)
  \/ \E n \in VarNames : addListener(n)
  \/ \E n \in VarNames, id \in 1 .. MaxSteps : delListener(n, id)
  \/ \E n \in VarNames, v \in Values \cup {Refused}, th \in 0 .. MaxSteps : LoadFromYaml(n, v, th)

-----------------------------------------------------------------------------
\* Until a listener throws, every listener sees an unbroken chain of values: what it
\* is told was the old value is what it was last told is the new one, and that is
\* the value of the variable.
ListenersSeeEveryChange ==
  [][~threw' =>
       \A x \in DOMAIN told \cap DOMAIN told' :
         /\ told'[x] # told[x] => told'[x].old = told[x].new
         /\ told'[x].new = GetDatas'[x[1]].m_val]_configVars
=============================================================================
