---------------------------- MODULE MCLogConfig ----------------------------
(* The instance of LogConfig for TLC. *)
EXTENDS LogConfig

MCVarNames == {"size", "Size"}
MCLowerName == [n \in MCVarNames |-> "size"]
MCLogNames == <<"a", "root">>

\* Patterns by their items; literal text behind the last directive is lost.
F1 == Text("[%%%d{%H:%M}]%m%n")
F2 == Text("%p%x%m end")
MCDefault == Text("%m%n")
MCMade ==
  [f \in {MCDefault, F1, F2} |->
    CASE f = MCDefault -> <<Directive(<<"m">>, <<>>), Directive(<<"n">>, <<>>)>>
      [] f = F1 -> <<Literal(Text("[%")), Directive(<<"d">>, Text("%H:%M")), Literal(<<"]">>),
                     Directive(<<"m">>, <<>>), Directive(<<"n">>, <<>>)>>
      [] f = F2 -> <<Directive(<<"p">>, <<>>), Literal(<<"error_format", "x">>),
                     Directive(<<"m">>, <<>>)>>]
Wrong == Text("%m%d{%Y")

Ap(type, level, formatter) == [type |-> type, level |-> level, formatter |-> formatter]
Entry(name, level, formatter, appenders) ==
  [name |-> name, level |-> level, formatter |-> formatter, appenders |-> appenders,
   complete |-> TRUE]

File == Ap(1, 1, F1)
Out == Ap(2, 4, <<>>)
MCYamls ==
  {<<>>,
   <<Entry("a", 1, F1, <<File, Out>>)>>,
   <<Entry("a", 1, F1, <<Out>>)>>,
   <<Entry("a", 3, F2, <<Out>>), Entry("a", 2, F1, <<>>)>>,
   <<Entry("root", 2, <<>>, <<Ap(2, 2, Wrong), File>>), Entry("a", 1, F1, <<Out>>)>>,
   <<Entry("root", 3, Wrong, <<>>), Entry("a", 2, F1, <<File>>)>>,
   <<Entry("a", 3, F1, <<Ap(0, 0, <<>>)>>)>>,
   <<[Entry("root", 3, F1, <<>>) EXCEPT !.complete = FALSE]>>}

\* The variables of Config and those of LogConfig do not meet: a behaviour changes
\* the ones or the others.
MCBound == steps = 0 \/ loads + logs = 0
=============================================================================
