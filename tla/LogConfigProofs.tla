-------------------------- MODULE LogConfigProofs --------------------------
(***************************************************************************)
(* The loggers under any number of setters and writers: types, and the     *)
(* formatters appenders inherit; and, when one thread at a time sets the   *)
(* variable, that the loggers match it.  The last part is about patterns:  *)
(* whatever the pattern, one that is accepted has been read completely.    *)
(***************************************************************************)
EXTENDS LogFormats, ListTheorems, SequenceTheorems

\* The listener counts the appenders of each logger from 0.
CountFresh ==
    \A s \in Setters : pc[s] \in {"format", "clear"} => added[s] = 0

SafeInv == TypeOK /\ Inherits /\ CountFresh

LEMMA InitSafe == Init => SafeInv
  <1> SUFFICES ASSUME Init PROVE SafeInv
    OBVIOUS
  <1>1. NoDefine \in Define
    BY DEF NoDefine, Define, Off, Patterns
  <1>2. \A n \in Names : Fresh(n) \in LoggerType
    <2> SUFFICES ASSUME NEW n \in Names PROVE Fresh(n) \in LoggerType
      OBVIOUS
    <2> DEFINE a == [type |-> "Stdout", own |-> FALSE,
                     formatter |-> DefaultFormat]
    <2>1. <<a>> \in Seq(Appender) /\ <<>> \in Seq(Appender)
      BY NamesAssumption DEF Appender
    <2>2. Fresh(n).appenders \in Seq(Appender)
      BY <2>1 DEF Fresh
    <2> QED BY <2>2, NamesAssumption DEF Fresh, LoggerType, Debug
  <1>3. TypeOK
    BY <1>1, <1>2, NamesAssumption DEF Init, TypeOK, PcValues
  <1>4. Inherits
    BY DEF Init, Inherits, Fresh
  <1>5. CountFresh
    BY DEF Init, CountFresh
  <1> QED BY <1>3, <1>4, <1>5 DEF SafeInv

\* A change of one logger that keeps its type and what its appenders inherit.
LEMMA LoggerStep ==
  ASSUME SafeInv, NEW n \in Names, NEW x \in LoggerType,
         logger' = [logger EXCEPT ![n] = x],
         \A i \in DOMAIN x.appenders :
             ~x.appenders[i].own => x.appenders[i].formatter = x.formatter
  PROVE  logger' \in [Names -> LoggerType] /\ Inherits'
  BY DEF SafeInv, TypeOK, Inherits

LEMMA SetLevelSafe ==
  ASSUME SafeInv, NEW s \in Setters, SetLevel(s) PROVE SafeInv'
  <1>1. PICK n \in todo[s] :
          /\ logger' = [logger EXCEPT ![n].level = new[s][n].level]
          /\ todo' = [todo EXCEPT ![s] = @ \ {n}]
          /\ cur' = [cur EXCEPT ![s] = n]
          /\ pc' = [pc EXCEPT ![s] =
                      IF new[s][n].formatter = NoFormat THEN "clear"
                                                        ELSE "format"]
    BY DEF SetLevel, Goto
  <1>2. TypeOK /\ Inherits /\ n \in Names
    BY DEF SafeInv, TypeOK
  <1> DEFINE x == [logger[n] EXCEPT !.level = new[s][n].level]
  <1>3. logger[n] \in LoggerType /\ new[s][n] \in Define
    BY <1>2 DEF TypeOK
  <1>4. /\ x \in LoggerType /\ x.appenders = logger[n].appenders
        /\ x.formatter = logger[n].formatter
    BY <1>3 DEF LoggerType, Define
  <1>5. logger' = [logger EXCEPT ![n] = x]
    BY <1>1, <1>2 DEF TypeOK
  <1>6. \A i \in DOMAIN x.appenders :
          ~x.appenders[i].own => x.appenders[i].formatter = x.formatter
    BY <1>2, <1>4 DEF Inherits
  <1>7. logger' \in [Names -> LoggerType] /\ Inherits'
    <2> HIDE DEF x
    <2> QED BY <1>2, <1>4, <1>5, <1>6, LoggerStep
  <1>8. TypeOK'
    BY <1>1, <1>2, <1>7 DEF SetLevel, TypeOK, PcValues, Announcing, writerVars
  <1>9. CountFresh'
    BY <1>1, <1>2 DEF SetLevel, SafeInv, CountFresh, TypeOK
  <1> QED BY <1>7, <1>8, <1>9 DEF SafeInv

LEMMA SetFormatterSafe ==
  ASSUME SafeInv, NEW s \in Setters, SetFormatter(s) PROVE SafeInv'
  <1> DEFINE n == cur[s]
             f == new[s][n].formatter
             old == logger[n].appenders
             as == [i \in DOMAIN old |->
                      IF old[i].own THEN old[i]
                                    ELSE [old[i] EXCEPT !.formatter = f]]
             x == [logger[n] EXCEPT !.formatter = f, !.appenders = as]
  <1>1. /\ TypeOK /\ Inherits /\ n \in Names
        /\ logger[n] \in LoggerType /\ old \in Seq(Appender)
    BY DEF SafeInv, TypeOK, LoggerType
  <1>2. logger' \in [Names -> LoggerType] /\ Inherits'
    <2>1. CASE f \notin Formats
      BY <1>1, <2>1 DEF SetFormatter, TypeOK, Inherits
    <2>2. CASE f \in Formats
      <3>1. logger' = [logger EXCEPT ![n] = x]
        BY <1>1, <2>2 DEF SetFormatter, TypeOK, LoggerType
      <3>2. \A i \in DOMAIN old : old[i] \in Appender
        BY <1>1
      <3>3. \A i \in DOMAIN old : as[i] \in Appender
        BY <2>2, <3>2 DEF Appender
      <3>4. as \in Seq(Appender)
        <4>1. DOMAIN old = 1..Len(old) /\ Len(old) \in Nat
          BY <1>1
        <4> HIDE DEF old, f
        <4>2. as \in [1..Len(old) -> Appender]
          BY <4>1, <3>3
        <4> QED BY <4>1, <4>2
      <3>5. \A i \in DOMAIN as : ~as[i].own => as[i].formatter = f
        BY <3>2 DEF Appender
      <3>6. /\ x \in LoggerType
            /\ x.appenders = as /\ x.formatter = f
        <4> HIDE DEF as, f
        <4> QED BY <1>1, <2>2, <3>4 DEF LoggerType
      <3> HIDE DEF x, as, f, n
      <3> QED BY <1>1, <3>1, <3>5, <3>6, LoggerStep DEF SafeInv
    <2> QED BY <2>1, <2>2
  <1>3. TypeOK'
    BY <1>1, <1>2
       DEF SetFormatter, Goto, TypeOK, PcValues, Announcing, writerVars
  <1>4. CountFresh'
    BY <1>1 DEF SetFormatter, Goto, SafeInv, CountFresh, TypeOK
  <1> QED BY <1>2, <1>3, <1>4 DEF SafeInv

LEMMA ClearAppendersSafe ==
  ASSUME SafeInv, NEW s \in Setters, ClearAppenders(s) PROVE SafeInv'
  <1> DEFINE n == cur[s]
             x == [logger[n] EXCEPT !.appenders = <<>>]
  <1>1. /\ TypeOK /\ Inherits /\ n \in Names /\ logger[n] \in LoggerType
        /\ new[s][n] \in Define
    BY DEF SafeInv, TypeOK
  <1>2. logger' = [logger EXCEPT ![n] = x]
    BY <1>1 DEF ClearAppenders, TypeOK
  <1>3. x \in LoggerType /\ x.appenders = <<>> /\ DOMAIN x.appenders = {}
    <2>1. <<>> \in Seq(Appender) /\ DOMAIN <<>> = {}
      OBVIOUS
    <2> QED BY <1>1, <2>1 DEF LoggerType
  <1>4. logger' \in [Names -> LoggerType] /\ Inherits'
    <2> HIDE DEF x, n
    <2> QED BY <1>1, <1>2, <1>3, LoggerStep
  <1>5. new[s][n].appenders \in Seq(AppenderDefine) /\ added[s] = 0
    BY <1>1 DEF Define, SafeInv, CountFresh, ClearAppenders
  <1>6. new[s][n].appenders # <<>> => added[s] < Len(new[s][n].appenders)
    BY <1>5
  <1>7. TypeOK'
    <2>1. \A u \in Setters :
            pc'[u] = "add" => added[u] < Len(new[u][cur[u]].appenders)
      BY <1>1, <1>6 DEF ClearAppenders, Goto, TypeOK
    <2> QED BY <1>1, <1>4, <2>1
               DEF ClearAppenders, Goto, TypeOK, PcValues, Announcing,
                   writerVars
  <1>8. CountFresh'
    BY <1>1 DEF ClearAppenders, Goto, SafeInv, CountFresh, TypeOK
  <1> QED BY <1>4, <1>7, <1>8 DEF SafeInv

LEMMA AddAppenderSafe ==
  ASSUME SafeInv, NEW s \in Setters, AddAppender(s) PROVE SafeInv'
  <1> DEFINE n == cur[s]
             ds == new[s][n].appenders
             d == ds[added[s] + 1]
             a == Made(d, logger[n].formatter)
             old == logger[n].appenders
             x == [logger[n] EXCEPT !.appenders = Append(old, a)]
  <1>1. /\ TypeOK /\ Inherits /\ n \in Names /\ logger[n] \in LoggerType
        /\ ds \in Seq(AppenderDefine) /\ old \in Seq(Appender)
        /\ added[s] \in Nat /\ added[s] < Len(ds)
    <2>1. TypeOK /\ Inherits /\ pc[s] = "add"
      BY DEF SafeInv, AddAppender
    <2>2. /\ n \in Names /\ logger[n] \in LoggerType /\ new[s][n] \in Define
          /\ added[s] \in Nat /\ added[s] < Len(ds)
      BY <2>1 DEF TypeOK
    <2> HIDE DEF n
    <2>3. ds \in Seq(AppenderDefine) /\ old \in Seq(Appender)
      BY <2>2 DEF LoggerType, Define
    <2> QED BY <2>1, <2>2, <2>3
  <1>2. d \in AppenderDefine
    <2> HIDE DEF ds
    <2> QED BY <1>1
  <1>3. /\ a \in Appender
        /\ ~a.own => a.formatter = logger[n].formatter
    <2>1. logger[n].formatter \in Formats
      BY <1>1 DEF LoggerType
    <2>2. d.type \in {"File", "Stdout"}
      BY <1>2 DEF AppenderDefine
    <2> HIDE DEF d, n
    <2>3. /\ a.type = d.type /\ a.own = (d.formatter \in Formats)
          /\ a.formatter = IF d.formatter \in Formats THEN d.formatter
                                                     ELSE logger[n].formatter
      BY DEF Made
    <2>4. a.own \in BOOLEAN /\ a.formatter \in Formats
      BY <2>1, <2>3
    <2>5. a \in Appender
      BY <2>2, <2>3, <2>4 DEF Made, Appender
    <2> QED BY <2>3, <2>5
  <1>4. logger' = [logger EXCEPT ![n] = x]
    BY <1>1 DEF AddAppender, TypeOK
  <1>5. /\ Append(old, a) \in Seq(Appender)
        /\ DOMAIN Append(old, a) = DOMAIN old \cup {Len(old) + 1}
        /\ Append(old, a)[Len(old) + 1] = a
        /\ \A i \in DOMAIN old : Append(old, a)[i] = old[i]
    <2> HIDE DEF old, a
    <2> QED BY <1>1, <1>3
  <1>6. /\ x \in LoggerType /\ x.appenders = Append(old, a)
        /\ x.formatter = logger[n].formatter
    <2> HIDE DEF a
    <2> QED BY <1>1, <1>5 DEF LoggerType
  <1>7. \A i \in DOMAIN x.appenders :
          ~x.appenders[i].own => x.appenders[i].formatter = x.formatter
    <2>1. \A i \in DOMAIN old :
            ~old[i].own => old[i].formatter = logger[n].formatter
      BY <1>1 DEF Inherits
    <2> HIDE DEF x, a, old, n
    <2> QED BY <1>3, <1>5, <1>6, <2>1
  <1>8. logger' \in [Names -> LoggerType] /\ Inherits'
    <2> HIDE DEF x, n
    <2> QED BY <1>1, <1>4, <1>6, <1>7, LoggerStep
  <1>9. TypeOK'
    <2>1. pc'[s] = "add" => added[s] + 1 < Len(ds)
      BY <1>1 DEF AddAppender, Goto, TypeOK
    <2>2. /\ added' = [added EXCEPT ![s] = @ + 1] /\ UNCHANGED <<new, cur>>
          /\ \A u \in Setters \ {s} : pc'[u] = pc[u]
      BY <1>1 DEF AddAppender, Goto, TypeOK
    <2>3. \A u \in Setters :
            pc'[u] = "add" => added'[u] < Len(new[u][cur[u]].appenders)
      BY <1>1, <2>1, <2>2 DEF TypeOK
    <2> HIDE DEF x, a, d, old
    <2> QED BY <1>1, <1>8, <2>2, <2>3
               DEF AddAppender, Goto, TypeOK, PcValues, Announcing, writerVars
  <1>10. CountFresh'
    BY <1>1 DEF AddAppender, Goto, SafeInv, CountFresh, TypeOK
  <1> QED BY <1>8, <1>9, <1>10 DEF SafeInv

\* The definitions a text gives: FirstOf finds the first one of each name,
\* and Only keeps appenders of the two types there are.
LEMMA UsableRead ==
  ASSUME NEW apps \in Seq(AppenderNode)
  PROVE  Only(apps, Usable) \in Seq(AppenderDefine)
  <1>1. PICK f \in [0..Len(apps) -> Seq(AppenderNode \cap Usable)] :
          Only(apps, Usable) = f[Len(apps)]
    <2>1. Filtered(apps, AppenderNode, Usable)
      BY OnlyRounds
    <2> QED BY <2>1 DEF Filtered
  <1>2. Len(apps) \in 0..Len(apps)
    <2>1. Len(apps) \in Nat
      BY LenProperties
    <2> QED BY <2>1
  <1>3. Only(apps, Usable) \in Seq(AppenderNode \cap Usable)
    BY <1>1, <1>2
  <1>4. AppenderNode \cap Usable \subseteq AppenderDefine
    BY DEF AppenderNode, Usable, AppenderDefine
  <1> QED BY <1>3, <1>4, SeqMonotonic

LEMMA FirstFound ==
  ASSUME NEW text \in Seq(Node), NEW n,
         \E i \in DOMAIN text : text[i].name = n
  PROVE  FirstOf(text, n) \in DOMAIN text
  <1> DEFINE T == {i \in DOMAIN text : text[i].name = n}
  <1>1. T \in SUBSET Nat /\ T # {} /\ DOMAIN text = 1..Len(text)
    OBVIOUS
  <1>2. PICK i \in T : \A k \in T : i <= k
    <2> HIDE DEF T
    <2> QED BY <1>1, Least
  <1>3. \A k \in 1..(i - 1) : text[k].name # n
    BY <1>1, <1>2
  <1> QED BY <1>2, <1>3 DEF FirstOf

LEMMA TextRead ==
  ASSUME NEW text \in Texts
  PROVE  FromYaml(text) \in [Names -> Define]
  <1>1. text \in Seq(Node)
    BY TextsAssumption
  <1>2. ASSUME NEW node \in Node PROVE ReadDefine(node) \in Define
    <2>1. node.appenders \in Seq(AppenderNode) /\ node.level \in Nat
          /\ node.formatter \in Patterns
      BY DEF Node
    <2>2. Only(node.appenders, Usable) \in Seq(AppenderDefine)
      BY <2>1, UsableRead
    <2>3. <<>> \in Seq(AppenderDefine)
      OBVIOUS
    <2> QED BY <2>1, <2>2, <2>3 DEF ReadDefine, Define
  <1>3. NoDefine \in Define
    BY DEF NoDefine, Define, Off, Patterns
  <1>4. ASSUME NEW n \in Names, \E i \in DOMAIN text : text[i].name = n
        PROVE  text[FirstOf(text, n)] \in Node
    <2>1. FirstOf(text, n) \in DOMAIN text
      BY <1>1, <1>4, FirstFound
    <2> QED BY <1>1, <2>1
  <1> QED BY <1>2, <1>3, <1>4 DEF FromYaml

LEMMA SetBeginSafe ==
  ASSUME SafeInv, NEW s \in Setters, SetBegin(s) PROVE SafeInv'
  <1>1. PICK text \in Texts :
          /\ new' = [new EXCEPT ![s] = FromYaml(text)]
          /\ todo' = [todo EXCEPT ![s] =
                        {n \in Names : FromYaml(text)[n] # defines[n]}]
    BY DEF SetBegin
  <1>2. FromYaml(text) \in [Names -> Define]
    BY TextRead
  <1>3. TypeOK'
    BY <1>1, <1>2
       DEF SafeInv, SetBegin, Goto, TypeOK, PcValues, Announcing, writerVars
  <1>4. Inherits' /\ CountFresh'
    BY DEF SafeInv, SetBegin, Goto, Inherits, CountFresh, TypeOK
  <1> QED BY <1>3, <1>4 DEF SafeInv

LEMMA NextSafe == SafeInv /\ [Next]_vars => SafeInv'
  <1> SUFFICES ASSUME SafeInv, [Next]_vars PROVE SafeInv'
    OBVIOUS
  <1>1. ASSUME NEW s \in Setters, SetBegin(s) \/ SetterStep(s)
        PROVE  SafeInv'
    <2>1. CASE SetAnnounced(s)
      BY <2>1 DEF SetAnnounced, SafeInv, TypeOK, Inherits, CountFresh, Goto,
                  PcValues, Announcing, writerVars
    <2>2. CASE SetStore(s)
      BY <2>2 DEF SetStore, SafeInv, TypeOK, Inherits, CountFresh, Goto,
                  PcValues, Announcing, writerVars
    <2> QED BY <1>1, <2>1, <2>2, SetBeginSafe, SetLevelSafe,
               SetFormatterSafe, ClearAppendersSafe, AddAppenderSafe
            DEF SetterStep
  <1>2. ASSUME NEW w \in Writers, LogBegin(w) \/ WriterStep(w)
        PROVE  SafeInv'
    <2>1. CASE LogBegin(w)
      <3>1. PICK n \in Names, v \in LineLevels :
              line' = [line EXCEPT ![w] = [name |-> n, level |-> v]]
        BY <2>1 DEF LogBegin
      <3>2. [name |-> n, level |-> v] \in [name : Names, level : Nat]
        BY LevelsAssumption
      <3>3. /\ line' \in [Writers -> [name : Names, level : Nat]]
            /\ at' \in [Writers -> {"free", "entered", "toRoot"}]
            /\ lines' \in Nat
        BY <2>1, <3>1, <3>2 DEF LogBegin, SafeInv, TypeOK
      <3> QED BY <2>1, <3>3
              DEF LogBegin, SafeInv, TypeOK, Inherits, CountFresh, setterVars
    <2>2. CASE WriterStep(w)
      <3>1. /\ at' \in [Writers -> {"free", "entered", "toRoot"}]
            /\ lost' \in Nat
        <4>1. CASE LogOwn(w)
          BY <4>1 DEF LogOwn, SafeInv, TypeOK
        <4>2. CASE LogPassOn(w)
          BY <4>2 DEF LogPassOn, SafeInv, TypeOK
        <4>3. CASE LogRoot(w)
          BY <4>3 DEF LogRoot, SafeInv, TypeOK
        <4> QED BY <2>2, <4>1, <4>2, <4>3 DEF WriterStep
      <3>2. UNCHANGED <<defines, logger, setterVars, line, lines, sets>>
        BY <2>2 DEF WriterStep, LogOwn, LogPassOn, LogRoot
      <3> QED BY <3>1, <3>2
              DEF SafeInv, TypeOK, Inherits, CountFresh, setterVars
    <2> QED BY <1>2, <2>1, <2>2
  <1>3. CASE UNCHANGED vars
    BY <1>3 DEF vars, setterVars, writerVars, SafeInv, TypeOK, Inherits,
                CountFresh
  <1> QED BY <1>1, <1>2, <1>3 DEF Next, Done

\* For any number of setters and writers: at every moment an appender without
\* a formatter of its own has the one its logger has, although setFormatter,
\* addAppender and clearAppenders of several listeners interleave.
THEOREM FormattersInherited == Spec => [](TypeOK /\ Inherits)
  <1>1. SafeInv => TypeOK /\ Inherits
    BY DEF SafeInv
  <1> QED BY <1>1, InitSafe, NextSafe, PTL DEF Spec
-----------------------------------------------------------------------------
(* One thread at a time sets the variable.                                 *)

\* The logger n is as definition d leaves it, or was never touched.
Settled(n, d) == Matches(n, d) \/ (d = NoDefine /\ logger[n] = Fresh(n))

\* The first k appenders of d are there, and no others.
Built(n, d, k) ==
    logger[n].appenders =
        [i \in 1..k |-> Made(d.appenders[i], logger[n].formatter)]

\* How far setter s has got with the logger it is rebuilding.
CurInv(s) ==
    LET n == cur[s]  d == new[s][n] IN
    /\ pc[s] \in {"format", "clear", "add"} => logger[n].level = d.level
    /\ pc[s] \in {"clear", "add"} =>
         (d.formatter \in Formats => logger[n].formatter = d.formatter)
    /\ pc[s] = "add" => Built(n, d, added[s])

\* The loggers it has done match the new value, all of them at the end.
DoneInv(s) ==
    /\ pc[s] = "free" => \A n \in Names : Settled(n, defines[n])
    /\ pc[s] # "free" =>
         \A n \in Names \ todo[s] :
             pc[s] \in {"pick", "store"} \/ n # cur[s] => Settled(n, new[s][n])
    /\ pc[s] = "store" => todo[s] = {}

MatchInv == SafeInv /\ \A s \in Setters : CurInv(s) /\ DoneInv(s)

LEMMA InitMatch == Init => MatchInv
  <1> SUFFICES ASSUME Init PROVE MatchInv
    OBVIOUS
  <1>1. SafeInv
    BY InitSafe
  <1>2. \A s \in Setters : CurInv(s) /\ DoneInv(s)
    BY DEF Init, CurInv, DoneInv, Settled
  <1> QED BY <1>1, <1>2 DEF MatchInv

\* What is settled depends on the logger alone.
LEMMA SettledSame ==
  ASSUME NEW n, NEW d, logger'[n] = logger[n], Settled(n, d)
  PROVE  Settled(n, d)'
  BY DEF Settled, Matches

LEMMA NoAppenders ==
  ASSUME NEW n, NEW d, logger[n].appenders = <<>> PROVE Built(n, d, 0)
  <1>1. <<>> = [i \in 1..0 |-> Made(d.appenders[i], logger[n].formatter)]
    OBVIOUS
  <1> QED BY <1>1 DEF Built

LEMMA SetBeginMatch ==
  ASSUME MatchInv, NEW s \in Setters, SetBegin(s)
  PROVE  CurInv(s)' /\ DoneInv(s)'
  <1>1. TypeOK
    BY DEF MatchInv, SafeInv
  <1>2. PICK text \in Texts :
          /\ new'[s] = FromYaml(text)
          /\ todo'[s] = {n \in Names : FromYaml(text)[n] # defines[n]}
    BY <1>1 DEF SetBegin, TypeOK
  <1>3. pc[s] = "free" /\ pc'[s] = "pick" /\ UNCHANGED logger
    BY <1>1 DEF SetBegin, Goto, TypeOK
  <1>4. (\A n \in Names \ todo[s] : Settled(n, new[s][n]))'
    <2> SUFFICES ASSUME NEW n \in Names \ todo'[s]
                 PROVE  Settled(n, new[s][n])'
      OBVIOUS
    <2>1. Settled(n, defines[n]) /\ new'[s][n] = defines[n]
      BY <1>2, <1>3 DEF MatchInv, DoneInv
    <2> QED BY <1>3, <2>1 DEF Settled, Matches
  <1> QED BY <1>3, <1>4 DEF CurInv, DoneInv

LEMMA SetLevelMatch ==
  ASSUME MatchInv, NEW s \in Setters, SetLevel(s)
  PROVE  CurInv(s)' /\ DoneInv(s)'
  <1>1. TypeOK
    BY DEF MatchInv, SafeInv
  <1>2. PICK n \in todo[s] :
          /\ logger' = [logger EXCEPT ![n].level = new[s][n].level]
          /\ todo' = [todo EXCEPT ![s] = @ \ {n}]
          /\ cur' = [cur EXCEPT ![s] = n]
          /\ pc' = [pc EXCEPT ![s] =
                      IF new[s][n].formatter = NoFormat THEN "clear"
                                                        ELSE "format"]
    BY DEF SetLevel, Goto
  <1>3. /\ n \in Names /\ logger[n] \in LoggerType
        /\ pc[s] = "pick" /\ UNCHANGED new
    BY <1>1, <1>2 DEF SetLevel, TypeOK
  <1>4. /\ logger'[n].level = new[s][n].level
        /\ \A m \in Names \ {n} : logger'[m] = logger[m]
        /\ todo'[s] = todo[s] \ {n} /\ cur'[s] = n
        /\ pc'[s] = IF new[s][n].formatter = NoFormat THEN "clear"
                                                      ELSE "format"
    BY <1>1, <1>2, <1>3 DEF TypeOK, LoggerType
  <1>5. CurInv(s)'
    BY <1>3, <1>4, NamesAssumption DEF CurInv
  <1>6. \A m \in Names \ todo'[s] : m # n => Settled(m, new[s][m])'
    BY <1>3, <1>4, SettledSame DEF MatchInv, DoneInv
  <1> QED BY <1>3, <1>4, <1>5, <1>6 DEF DoneInv

\* A step of the listener on the logger it is rebuilding leaves the others.
LEMMA OthersSettled ==
  ASSUME MatchInv, NEW s \in Setters, pc[s] \in {"format", "clear", "add"},
         UNCHANGED <<new, todo, cur>>,
         \A m \in Names \ {cur[s]} : logger'[m] = logger[m],
         pc'[s] \in {"clear", "add"}
           \/ (pc'[s] = "pick" /\ Settled(cur[s], new[s][cur[s]])')
  PROVE  DoneInv(s)'
  <1>1. \A m \in Names \ todo[s] : m # cur[s] => Settled(m, new[s][m])'
    BY SettledSame DEF MatchInv, DoneInv
  <1> QED BY <1>1 DEF DoneInv

LEMMA SetFormatterMatch ==
  ASSUME MatchInv, NEW s \in Setters, SetFormatter(s)
  PROVE  CurInv(s)' /\ DoneInv(s)'
  <1> DEFINE n == cur[s]
             f == new[s][n].formatter
  <1>1. TypeOK /\ pc[s] = "format" /\ UNCHANGED <<new, todo, cur>>
    BY DEF MatchInv, SafeInv, SetFormatter
  <1>2. n \in Names /\ logger[n] \in LoggerType /\ pc'[s] = "clear"
    BY <1>1 DEF SetFormatter, Goto, TypeOK
  <1>3. /\ \A m \in Names \ {n} : logger'[m] = logger[m]
        /\ logger'[n].level = logger[n].level
        /\ f \in Formats => logger'[n].formatter = f
    BY <1>1, <1>2 DEF SetFormatter, TypeOK, LoggerType
  <1>4. CurInv(s)'
    BY <1>1, <1>2, <1>3 DEF MatchInv, CurInv
  <1>5. DoneInv(s)'
    BY <1>1, <1>2, <1>3, OthersSettled
  <1> QED BY <1>4, <1>5

LEMMA ClearAppendersMatch ==
  ASSUME MatchInv, NEW s \in Setters, ClearAppenders(s)
  PROVE  CurInv(s)' /\ DoneInv(s)'
  <1> DEFINE n == cur[s]
             d == new[s][n]
  <1>1. TypeOK /\ pc[s] = "clear" /\ UNCHANGED <<new, todo, cur, added>>
    BY DEF MatchInv, SafeInv, ClearAppenders
  <1>2. /\ n \in Names /\ logger[n] \in LoggerType /\ d \in Define
        /\ pc'[s] = IF d.appenders = <<>> THEN "pick" ELSE "add"
        /\ added[s] = 0
    BY <1>1 DEF ClearAppenders, Goto, TypeOK, MatchInv, SafeInv, CountFresh
  <1>3. /\ \A m \in Names \ {n} : logger'[m] = logger[m]
        /\ logger'[n].level = logger[n].level
        /\ logger'[n].formatter = logger[n].formatter
        /\ logger'[n].appenders = <<>>
    BY <1>1, <1>2 DEF ClearAppenders, TypeOK, LoggerType
  <1>4. Built(n, d, 0)'
    BY <1>1, <1>3, NoAppenders DEF Built
  <1>5. /\ logger[n].level = d.level
        /\ d.formatter \in Formats => logger[n].formatter = d.formatter
    BY <1>1 DEF MatchInv, CurInv
  <1>6. CurInv(s)'
    BY <1>1, <1>2, <1>3, <1>4, <1>5 DEF CurInv
  <1>7. d.appenders = <<>> => Settled(n, d)'
    <2>1. d.appenders = <<>> => DOMAIN d.appenders = 1..0
      OBVIOUS
    <2> QED BY <1>1, <1>3, <1>4, <1>5, <2>1 DEF Settled, Matches, Built
  <1>8. DoneInv(s)'
    BY <1>1, <1>2, <1>3, <1>7, OthersSettled
  <1> QED BY <1>6, <1>8

LEMMA AddAppenderMatch ==
  ASSUME MatchInv, NEW s \in Setters, AddAppender(s)
  PROVE  CurInv(s)' /\ DoneInv(s)'
  <1> DEFINE n == cur[s]
             d == new[s][n]
             k == added[s]
             old == logger[n].appenders
             a == Made(d.appenders[k + 1], logger[n].formatter)
  <1>1. TypeOK /\ pc[s] = "add" /\ UNCHANGED <<new, todo, cur>>
    BY DEF MatchInv, SafeInv, AddAppender
  <1>2. /\ n \in Names /\ logger[n] \in LoggerType /\ d \in Define
        /\ k \in Nat /\ added'[s] = k + 1
        /\ pc'[s] = IF k + 1 = Len(d.appenders) THEN "pick" ELSE "add"
    BY <1>1 DEF AddAppender, Goto, TypeOK
  <1>3. /\ \A m \in Names \ {n} : logger'[m] = logger[m]
        /\ logger'[n].level = logger[n].level
        /\ logger'[n].formatter = logger[n].formatter
        /\ logger'[n].appenders = Append(old, a)
    BY <1>1, <1>2 DEF AddAppender, TypeOK, LoggerType
  <1>4. /\ logger[n].level = d.level
        /\ d.formatter \in Formats => logger[n].formatter = d.formatter
        /\ old = [i \in 1..k |-> Made(d.appenders[i], logger[n].formatter)]
    BY <1>1 DEF MatchInv, CurInv, Built
  <1>5. Append(old, a) =
          [i \in 1..(k + 1) |-> Made(d.appenders[i], logger[n].formatter)]
    <2> DEFINE g(i) == Made(d.appenders[i], logger[n].formatter)
    <2> HIDE DEF g, k
    <2> SUFFICES Append([i \in 1..k |-> g(i)], g(k + 1)) =
                   [i \in 1..(k + 1) |-> g(i)]
      BY <1>4 DEF g
    <2> QED BY <1>2
  <1>6. logger'[n].appenders =
          [i \in 1..(k + 1) |-> Made(d.appenders[i], logger'[n].formatter)]
    BY <1>3, <1>5
  <1>7. CurInv(s)'
    BY <1>1, <1>2, <1>3, <1>4, <1>6 DEF CurInv, Built
  <1>8. k + 1 = Len(d.appenders) => Settled(n, d)'
    <2>1. d.appenders \in Seq(AppenderDefine)
      BY <1>2 DEF Define
    <2>2. DOMAIN d.appenders = 1..Len(d.appenders)
      <3> HIDE DEF d
      <3> QED BY <2>1
    <2> QED BY <1>1, <1>3, <1>4, <1>6, <2>2 DEF Settled, Matches
  <1>9. DoneInv(s)'
    BY <1>1, <1>2, <1>3, <1>8, OthersSettled
  <1> QED BY <1>7, <1>9

LEMMA NextMatch ==
  ASSUME \A s, u \in Setters : s = u, MatchInv, [Next]_vars PROVE MatchInv'
  <1>1. SafeInv'
    BY NextSafe DEF MatchInv
  <1>2. ASSUME NEW s \in Setters, SetBegin(s) \/ SetterStep(s)
        PROVE  CurInv(s)' /\ DoneInv(s)'
    <2>1. CASE SetAnnounced(s)
      <3>1. /\ pc[s] = "pick" /\ todo[s] = {} /\ pc'[s] = "store"
            /\ UNCHANGED <<logger, new, todo, cur, added>>
        BY <2>1 DEF SetAnnounced, Goto, MatchInv, SafeInv, TypeOK
      <3> QED BY <3>1, SettledSame DEF MatchInv, CurInv, DoneInv
    <2>2. CASE SetStore(s)
      <3>1. /\ pc[s] = "store" /\ pc'[s] = "free" /\ defines' = new[s]
            /\ UNCHANGED logger
        BY <2>2 DEF SetStore, Goto, MatchInv, SafeInv, TypeOK
      <3> QED BY <3>1, SettledSame DEF MatchInv, CurInv, DoneInv
    <2> QED BY <1>2, <2>1, <2>2, SetBeginMatch, SetLevelMatch,
               SetFormatterMatch, ClearAppendersMatch, AddAppenderMatch
            DEF SetterStep
  <1>3. CASE UNCHANGED <<defines, logger, setterVars>>
    BY <1>1, <1>3
       DEF setterVars, MatchInv, CurInv, DoneInv, Settled, Matches, Built
  <1>4. ASSUME NEW w \in Writers, LogBegin(w) \/ WriterStep(w)
        PROVE  UNCHANGED <<defines, logger, setterVars>>
    BY <1>4 DEF WriterStep, LogBegin, LogOwn, LogPassOn, LogRoot
  <1> QED BY <1>1, <1>2, <1>3, <1>4 DEF Next, Done, vars, MatchInv

\* If at most one thread sets the variable, the loggers match its value
\* whenever nobody sets it, for any names, texts and number of writers.
THEOREM OneSetterMatches ==
  ASSUME \A s, u \in Setters : s = u, Setters # {}
  PROVE  Spec => []LoggersMatch
  <1>1. MatchInv => LoggersMatch
    BY DEF MatchInv, DoneInv, LoggersMatch, Quiet, Settled
  <1>2. MatchInv /\ [Next]_vars => MatchInv'
    BY NextMatch
  <1> QED BY <1>1, <1>2, InitMatch, PTL DEF Spec
-----------------------------------------------------------------------------
(* Which lines are lost, when one thread at a time sets the variable.      *)

\* Until the listener has cleared the root logger, it has appenders if the
\* value kept gives it some.  The logger being rebuilt is ticked off.
RootKept(s) ==
    /\ pc[s] \in {"format", "clear", "add"} => cur[s] \notin todo[s]
    /\ \/ pc[s] = "free" \/ Root \in todo[s]
       \/ cur[s] = Root /\ pc[s] \in {"format", "clear"}
       => (logger[Root].appenders = <<>> => defines[Root].appenders = <<>>)

LEMMA NoElements ==
  ASSUME NEW S, NEW q \in Seq(S), DOMAIN q = {} PROVE q = <<>>
  OBVIOUS

LEMMA SettledBare ==
  ASSUME NEW d \in Define, Settled(Root, d), logger[Root].appenders = <<>>
  PROVE  d.appenders = <<>>
  <1>1. CASE Matches(Root, d)
    <2>1. DOMAIN d.appenders = DOMAIN logger[Root].appenders
      BY <1>1 DEF Matches
    <2>2. d.appenders \in Seq(AppenderDefine) /\ DOMAIN d.appenders = {}
      BY <2>1 DEF Define
    <2> QED BY <2>2
  <1>2. CASE d = NoDefine
    BY <1>2 DEF NoDefine
  <1> QED BY <1>1, <1>2 DEF Settled

LEMMA RootKeptStep ==
  ASSUME \A s, u \in Setters : s = u, MatchInv, NEW s \in Setters,
         RootKept(s), SetBegin(s) \/ SetterStep(s)
  PROVE  RootKept(s)'
  <1>0. TypeOK /\ Root \in Names
    BY NamesAssumption DEF MatchInv, SafeInv
  <1> DEFINE n == cur[s]
             At3 == {"format", "clear", "add"}
  \* A step on another logger, or on the root logger's appenders.
  <1>1. ASSUME pc[s] \in At3, pc'[s] \in At3 \cup {"pick"},
               UNCHANGED <<defines, todo, cur>>,
               n # Root => logger'[Root] = logger[Root],
               n = Root /\ pc'[s] \in {"format", "clear"} =>
                 /\ pc[s] \in {"format", "clear"}
                 /\ logger'[Root].appenders = <<>> =>
                      logger[Root].appenders = <<>>
        PROVE  RootKept(s)'
    BY <1>1 DEF RootKept
  <1>2. CASE SetBegin(s)
    <2>1. pc[s] = "free" /\ pc'[s] = "pick" /\ UNCHANGED <<logger, defines>>
      BY <1>0, <1>2 DEF SetBegin, Goto, TypeOK
    <2> QED BY <2>1 DEF RootKept
  <1>3. CASE SetLevel(s)
    <2>1. PICK m \in todo[s] :
            /\ logger' = [logger EXCEPT ![m].level = new[s][m].level]
            /\ todo' = [todo EXCEPT ![s] = @ \ {m}]
            /\ cur' = [cur EXCEPT ![s] = m]
      BY <1>3 DEF SetLevel
    <2>2. /\ pc'[s] \in {"format", "clear"} /\ UNCHANGED defines
          /\ m \in Names /\ cur'[s] = m /\ todo'[s] = todo[s] \ {m}
      BY <1>0, <1>3, <2>1 DEF SetLevel, Goto, TypeOK
    <2>3. logger'[Root].appenders = logger[Root].appenders
      BY <1>0, <2>1 DEF TypeOK, LoggerType
    <2> QED BY <2>1, <2>2, <2>3 DEF RootKept
  <1>4. CASE SetFormatter(s)
    <2>1. /\ pc[s] = "format" /\ pc'[s] = "clear" /\ n \in Names
          /\ UNCHANGED <<defines, todo, cur>>
      BY <1>0, <1>4 DEF SetFormatter, Goto, TypeOK
    <2>2. n # Root => logger'[Root] = logger[Root]
      BY <1>0, <1>4 DEF SetFormatter, TypeOK
    <2>3. DOMAIN logger'[Root].appenders = DOMAIN logger[Root].appenders
      BY <1>0, <1>4 DEF SetFormatter, TypeOK, LoggerType
    <2>4. ASSUME logger'[Root].appenders = <<>>
          PROVE  logger[Root].appenders = <<>>
      <3>1. logger[Root].appenders \in Seq(Appender)
        BY <1>0 DEF TypeOK, LoggerType
      <3>2. DOMAIN logger[Root].appenders = {}
        BY <2>3, <2>4
      <3> QED BY <3>1, <3>2, NoElements
    <2> QED BY <1>1, <2>1, <2>2, <2>4
  <1>5. CASE ClearAppenders(s) \/ AddAppender(s)
    <2>1. /\ pc[s] \in {"clear", "add"} /\ pc'[s] \in {"pick", "add"}
          /\ n \in Names /\ UNCHANGED <<defines, todo, cur>>
      BY <1>0, <1>5 DEF ClearAppenders, AddAppender, Goto, TypeOK
    <2>2. n # Root => logger'[Root] = logger[Root]
      BY <1>0, <1>5 DEF ClearAppenders, AddAppender, TypeOK
    <2> QED BY <1>1, <2>1, <2>2
  <1>6. CASE SetAnnounced(s)
    <2>1. /\ pc[s] = "pick" /\ pc'[s] = "store"
          /\ UNCHANGED <<defines, logger, todo>>
      BY <1>0, <1>6 DEF SetAnnounced, Goto, TypeOK
    <2> QED BY <2>1 DEF RootKept
  <1>7. CASE SetStore(s)
    <2>1. /\ pc[s] = "store" /\ pc'[s] = "free"
          /\ defines' = new[s] /\ UNCHANGED logger
      BY <1>0, <1>7 DEF SetStore, Goto, TypeOK
    <2>2. Settled(Root, new[s][Root])
      BY <1>0, <2>1 DEF MatchInv, DoneInv
    <2>4. new[s][Root] \in Define
      BY <1>0 DEF TypeOK
    <2>3. logger[Root].appenders = <<>> => new[s][Root].appenders = <<>>
      BY <2>2, <2>4, SettledBare
    <2> QED BY <2>1, <2>3 DEF RootKept
  <1> QED BY <1>2, <1>3, <1>4, <1>5, <1>6, <1>7 DEF SetterStep

LEMMA BareRoot ==
  ASSUME MatchInv, NEW s \in Setters, RootKept(s), ~Has(Root)
  PROVE  RootBare
  <1>0. TypeOK /\ Root \in Names /\ logger[Root].appenders = <<>>
    BY NamesAssumption DEF MatchInv, SafeInv, Has
  <1>1. CASE \/ pc[s] = "free" \/ Root \in todo[s]
             \/ cur[s] = Root /\ pc[s] \in {"format", "clear"}
    BY <1>0, <1>1 DEF RootKept, RootBare
  <1>2. CASE cur[s] = Root /\ pc[s] = "add"
    <2>1. Built(Root, new[s][Root], added[s]) /\ added[s] \in Nat
      BY <1>0, <1>2 DEF MatchInv, CurInv, TypeOK
    <2>2. 1..added[s] = {}
      BY <1>0, <2>1 DEF Built
    <2>3. added[s] = 0
      BY <2>1, <2>2
    <2> QED BY <1>2, <2>3 DEF RootBare
  <1>3. CASE /\ pc[s] # "free" /\ Root \notin todo[s]
             /\ pc[s] \in {"pick", "store"} \/ Root # cur[s]
    <2>1. Settled(Root, new[s][Root]) /\ new[s][Root] \in Define
      BY <1>0, <1>3 DEF MatchInv, DoneInv, TypeOK
    <2>2. new[s][Root].appenders = <<>>
      BY <1>0, <2>1, SettledBare
    <2> QED BY <1>3, <2>2 DEF RootBare
  <1> QED BY <1>0, <1>1, <1>2, <1>3 DEF TypeOK, PcValues, Announcing

\* If at most one thread sets the variable, a line that passed its logger's
\* level is lost only while the root logger is without appenders on purpose:
\* between its old and its new ones, or because its definition says so.
THEOREM OneSetterLosesRarely ==
  ASSUME \A s, u \in Setters : s = u, Setters # {}
  PROVE  Spec => LostOnlyWhileBare
  <1> DEFINE Inv == MatchInv /\ \A s \in Setters : RootKept(s)
  <1>1. Init => Inv
    <2> SUFFICES ASSUME Init PROVE \A s \in Setters : RootKept(s)
      BY InitMatch
    <2> QED BY NamesAssumption DEF Init, RootKept, NoDefine
  <1>2. ASSUME Inv, [Next]_vars PROVE Inv'
    <2>1. MatchInv'
      BY <1>2, NextMatch
    <2>2. ASSUME NEW s \in Setters, SetBegin(s) \/ SetterStep(s)
          PROVE  \A u \in Setters : RootKept(u)'
      BY <1>2, <2>2, RootKeptStep
    <2>3. ASSUME UNCHANGED <<defines, logger, setterVars>>,
                 NEW s \in Setters
          PROVE  RootKept(s)'
      <3>1. RootKept(s) /\ UNCHANGED <<defines, logger, pc, todo, cur>>
        BY <1>2, <2>3 DEF setterVars
      <3> QED BY <3>1 DEF RootKept
    <2>4. ASSUME NEW w \in Writers, LogBegin(w) \/ WriterStep(w)
          PROVE  UNCHANGED <<defines, logger, setterVars>>
      BY <2>4 DEF WriterStep, LogBegin, LogOwn, LogPassOn, LogRoot
    <2> QED BY <1>2, <2>1, <2>2, <2>3, <2>4 DEF Next, Done, vars
  <1>3. ASSUME Inv, [Next]_vars PROVE lost' # lost => RootBare
    <2>1. ~Has(Root) => RootBare
      BY <1>3, BareRoot
    <2>2. ASSUME NEW w \in Writers, LogRoot(w), Has(Root)
          PROVE  lost' = lost
      BY <2>2 DEF LogRoot
    <2>3. ASSUME NEW s \in Setters, SetBegin(s) \/ SetterStep(s)
          PROVE  lost' = lost
      BY <2>3 DEF SetterStep, SetBegin, SetLevel, SetFormatter,
                  ClearAppenders, AddAppender, SetAnnounced, SetStore,
                  writerVars
    <2>4. ASSUME NEW w \in Writers, LogBegin(w) \/ LogOwn(w) \/ LogPassOn(w)
          PROVE  lost' = lost
      BY <2>4 DEF LogBegin, LogOwn, LogPassOn
    <2> QED BY <1>3, <2>1, <2>2, <2>3, <2>4
            DEF Next, WriterStep, Done, vars, writerVars
  <1> QED BY <1>1, <1>2, <1>3, PTL DEF Spec, LostOnlyWhileBare

-----------------------------------------------------------------------------
(* Patterns.  The invariant of the outer loop of LogFormatter::init: as    *)
(* long as there was no error, the pieces found and the text collected     *)
(* spell what has been read.                                               *)

Signs == Chars \cup {"%", "{", "}"}
Open == "{"
Close == "}"

Piece == [kind : {"text", "item", "error"}, str : Seq(Signs), fmt : Seq(Signs)]
Scan == [i : Nat, nstr : Seq(Signs), vec : Seq(Piece)]

NameEnd(p, n) == FirstFrom(p, n, EndsName)
BraceEnd(p, n) == FirstFrom(p, n, LAMBDA c : c = "}")

LEMMA NameEnds ==
  ASSUME NEW p \in Seq(Signs), NEW n \in Nat
  PROVE  NameEnd(p, n) \in (n..Len(p)) \cup {Len(p) + 1}
  <1> DEFINE S == {k \in n..Len(p) : EndsName(p[k])} \cup {Len(p) + 1}
  <1>1. S \in SUBSET Nat /\ S # {}
    OBVIOUS
  <1>2. NameEnd(p, n) = Min(S)
    BY DEF NameEnd, FirstFrom
  <1> HIDE DEF S
  <1>3. Min(S) \in S
    BY <1>1, MinOf
  <1> QED BY <1>2, <1>3 DEF S

LEMMA BraceEnds ==
  ASSUME NEW p \in Seq(Signs), NEW n \in Nat
  PROVE  \/ BraceEnd(p, n) = Len(p) + 1
         \/ BraceEnd(p, n) \in n..Len(p) /\ p[BraceEnd(p, n)] = Close
  <1> DEFINE S == {k \in n..Len(p) : p[k] = "}"} \cup {Len(p) + 1}
  <1>1. S \in SUBSET Nat /\ S # {}
    <2>1. Len(p) + 1 \in Nat /\ n..Len(p) \subseteq Nat
      OBVIOUS
    <2>2. {k \in n..Len(p) : p[k] = "}"} \subseteq n..Len(p)
      OBVIOUS
    <2> QED BY <2>1, <2>2, Zenon
  <1>2. BraceEnd(p, n) = Min(S)
    BY DEF BraceEnd, FirstFrom
  <1> HIDE DEF S
  <1>3. Min(S) \in S
    BY <1>1, MinOf
  <1> QED BY <1>2, <1>3, Zenon DEF S, Close

-----------------------------------------------------------------------------
-----------------------------------------------------------------------------
LEMMA PieceType ==
  /\ \A s \in Seq(Signs) : Text(s) \in Piece
  /\ \A s, f \in Seq(Signs) : Item(s, f) \in Piece
  /\ PatternError \in Piece
  <1>1. <<>> \in Seq(Signs)
    OBVIOUS
  <1> QED BY <1>1 DEF Text, Item, PatternError, Piece

LEMMA WrittenType ==
  ASSUME NEW x \in Piece
  PROVE  Written(x) \in Seq(Signs)
  <1>1. <<"%">> \in Seq(Signs) /\ <<"{">> \in Seq(Signs)
        /\ <<"}">> \in Seq(Signs) /\ <<>> \in Seq(Signs)
    BY DEF Signs
  <1>2. x.str \in Seq(Signs) /\ x.fmt \in Seq(Signs)
    BY DEF Piece
  <1> HIDE DEF Signs
  <1> DEFINE C == Seq(Signs)
  <1>3. \A a, b \in C : a \o b \in C
    BY ConcatProperties
  <1>4. <<"%">> \in C /\ <<"{">> \in C /\ <<"}">> \in C /\ <<>> \in C
        /\ x.str \in C /\ x.fmt \in C
    BY <1>1, <1>2
  <1> HIDE DEF C
  <1>5. Written(x) \in C
    BY <1>3, <1>4 DEF Written
  <1> QED BY <1>5 DEF C

Spelled(vec) == FlattenSeq([k \in DOMAIN vec |-> Written(vec[k])])

LEMMA SpelledEmpty == Spelled(<<>>) = <<>>
  <1>1. [k \in DOMAIN <<>> |-> Written(<<>>[k])] = <<>>
    OBVIOUS
  <1> QED BY <1>1, FlattenEmpty DEF Spelled

LEMMA SpelledAppend ==
  ASSUME NEW vec \in Seq(Piece), NEW x \in Piece
  PROVE  /\ Spelled(vec) \in Seq(Signs)
         /\ Spelled(Append(vec, x)) = Spelled(vec) \o Written(x)
  <1> DEFINE C == Seq(Signs)
             W(v) == [k \in DOMAIN v |-> Written(v[k])]
  <1>1. \A y \in Piece : Written(y) \in C
    BY WrittenType
  <1> HIDE DEF C
  <1>2. W(vec) \in Seq(C)
    <2>1. Len(vec) \in Nat /\ DOMAIN vec = 1..Len(vec)
          /\ \A k \in 1..Len(vec) : Written(vec[k]) \in C
      BY <1>1
    <2> QED BY <2>1
  <1>3. W(Append(vec, x)) = Append(W(vec), Written(x))
    <2>1. Append(vec, x) \in Seq(Piece) /\ Len(Append(vec, x)) = Len(vec) + 1
          /\ Len(vec) \in Nat /\ DOMAIN vec = 1..Len(vec)
          /\ Append(vec, x)[Len(vec) + 1] = x
          /\ \A k \in 1..Len(vec) : Append(vec, x)[k] = vec[k]
          /\ DOMAIN Append(vec, x) = 1..(Len(vec) + 1)
      OBVIOUS
    <2>2. Len(W(vec)) = Len(vec)
      BY <1>2, <2>1
    <2>3. DOMAIN Append(W(vec), Written(x)) = 1..(Len(vec) + 1)
      BY <1>2, <2>1, <2>2, <1>1
    <2>4. \A k \in 1..(Len(vec) + 1) :
            W(Append(vec, x))[k] = Append(W(vec), Written(x))[k]
      <3> TAKE k \in 1..(Len(vec) + 1)
      <3>1. CASE k = Len(vec) + 1
        BY <1>1, <1>2, <2>1, <2>2, <3>1
      <3>2. CASE k \in 1..Len(vec)
        BY <1>1, <1>2, <2>1, <2>2, <3>2
      <3> QED BY <2>1, <3>1, <3>2
    <2>5. W(Append(vec, x)) \in Seq(C) /\ Append(W(vec), Written(x)) \in Seq(C)
      <3>1. \A k \in 1..(Len(vec) + 1) : Written(Append(vec, x)[k]) \in C
        BY <1>1, <2>1
      <3> QED BY <1>1, <1>2, <2>1, <3>1
    <2>6. Len(W(Append(vec, x))) = Len(vec) + 1
          /\ Len(Append(W(vec), Written(x))) = Len(vec) + 1
      BY <1>1, <1>2, <2>1, <2>2, <2>5
    <2> HIDE DEF W
    <2> QED BY <2>4, <2>5, <2>6, SeqEqual
  <1>4. Written(x) \in C
    BY <1>1
  <1>5. FlattenSeq(W(vec)) \in C
    BY <1>2, FlattenType DEF C
  <1>6. FlattenSeq(Append(W(vec), Written(x))) = FlattenSeq(W(vec)) \o Written(x)
    <2> HIDE DEF W
    <2>1. PICK w \in Seq(Seq(Signs)) : w = W(vec)
      BY <1>2 DEF C
    <2>2. PICK y \in Seq(Signs) : y = Written(x)
      BY <1>4 DEF C
    <2>3. FlattenSeq(Append(w, y)) = FlattenSeq(w) \o y
      BY FlattenAppend
    <2> QED BY <2>1, <2>2, <2>3
  <1> QED BY <1>3, <1>5, <1>6 DEF Spelled, C
-----------------------------------------------------------------------------
Clean(vec) == \A k \in DOMAIN vec : vec[k].kind # "error"

Reads(p, s) ==
    /\ s \in Scan /\ s.i \in 1..(Len(p) + 1)
    /\ Clean(s.vec) => Spelled(s.vec) \o s.nstr = SubSeq(p, 1, s.i - 1)

LEMMA CleanAppend ==
  ASSUME NEW vec \in Seq(Piece), NEW x \in Piece
  PROVE  /\ Append(vec, x) \in Seq(Piece)
         /\ Clean(Append(vec, x)) <=> Clean(vec) /\ x.kind # "error"
  <1>1. /\ Append(vec, x) \in Seq(Piece)
        /\ Len(vec) \in Nat /\ DOMAIN vec = 1..Len(vec)
        /\ Append(vec, x)[Len(vec) + 1] = x
        /\ \A k \in 1..Len(vec) : Append(vec, x)[k] = vec[k]
        /\ DOMAIN Append(vec, x) = 1..(Len(vec) + 1)
    OBVIOUS
  <1>2. 1..(Len(vec) + 1) = 1..Len(vec) \cup {Len(vec) + 1}
    BY <1>1
  <1> QED BY <1>1, <1>2 DEF Clean

LEMMA FlushReads ==
  ASSUME NEW p \in Seq(Signs), NEW s, Reads(p, s)
  PROVE  /\ Flush(s) \in Seq(Piece)
         /\ Clean(Flush(s)) => Spelled(Flush(s)) = SubSeq(p, 1, s.i - 1)
  <1>1. s.vec \in Seq(Piece) /\ s.nstr \in Seq(Signs)
    BY DEF Reads, Scan
  <1>2. CASE s.nstr = <<>>
    <2>1. Spelled(s.vec) \in Seq(Signs)
      BY <1>1, PieceType, SpelledAppend
    <2>2. Spelled(s.vec) \o s.nstr = Spelled(s.vec)
      BY <1>2, <2>1, ConcatEmptySeq
    <2> QED BY <1>1, <1>2, <2>2 DEF Flush, Reads
  <1>3. CASE s.nstr # <<>>
    <2>1. Text(s.nstr) \in Piece /\ Text(s.nstr).kind # "error"
          /\ Written(Text(s.nstr)) = s.nstr
      <3>1. Text(s.nstr) \in Piece
        BY <1>1, PieceType
      <3> QED BY <3>1 DEF Text, Written
    <2>2. Flush(s) = Append(s.vec, Text(s.nstr))
      BY <1>3 DEF Flush
    <2> QED BY <1>1, <2>1, <2>2, CleanAppend, SpelledAppend DEF Reads
  <1> QED BY <1>2, <1>3

LEMMA TextReads ==
  ASSUME NEW p \in Seq(Signs), NEW s, Reads(p, s), s.i <= Len(p)
  PROVE  Reads(p, [s EXCEPT !.i = @ + 1, !.nstr = Append(@, p[s.i])])
  <1>1. /\ s.vec \in Seq(Piece) /\ s.nstr \in Seq(Signs) /\ s.i \in 1..Len(p)
        /\ p[s.i] \in Signs /\ Len(p) \in Nat
    BY DEF Reads, Scan
  <1> DEFINE t == [s EXCEPT !.i = @ + 1, !.nstr = Append(@, p[s.i])]
  <1>2. t.i = s.i + 1 /\ t.nstr = Append(s.nstr, p[s.i]) /\ t.vec = s.vec
    BY DEF Reads, Scan
  <1>3. t \in Scan
    <2>1. Append(s.nstr, p[s.i]) \in Seq(Signs)
      BY <1>1
    <2>2. s \in Scan /\ s.i + 1 \in Nat
      BY <1>1 DEF Reads
    <2> QED BY <2>1, <2>2 DEF Scan
  <1>4. ASSUME Clean(s.vec)
        PROVE  Spelled(s.vec) \o Append(s.nstr, p[s.i]) = SubSeq(p, 1, s.i)
    <2>1. Spelled(s.vec) \in Seq(Signs)
      BY <1>1, PieceType, SpelledAppend
    <2>2. Spelled(s.vec) \o Append(s.nstr, p[s.i])
            = Append(Spelled(s.vec) \o s.nstr, p[s.i])
      <3>1. PICK a \in Seq(Signs) : a = Spelled(s.vec)
        BY <2>1
      <3>2. PICK b \in Seq(Signs) : b = s.nstr
        BY <1>1
      <3>3. PICK c \in Signs : c = p[s.i]
        BY <1>1
      <3>4. a \o Append(b, c) = Append(a \o b, c)
        BY ConcatAppend
      <3> QED BY <3>1, <3>2, <3>3, <3>4
    <2>3. SubSeq(p, 1, s.i) = Append(SubSeq(p, 1, s.i - 1), p[s.i])
      BY <1>1, SubSeqAppend
    <2> QED BY <1>4, <2>2, <2>3 DEF Reads
  <1> HIDE DEF t
  <1>5. (s.i + 1) - 1 = s.i /\ t.i \in 1..(Len(p) + 1)
    BY <1>1, <1>2
  <1> QED BY <1>2, <1>3, <1>4, <1>5 DEF Reads, t

LEMMA ErrorReads ==
  ASSUME NEW p \in Seq(Signs), NEW s, Reads(p, s), s.i <= Len(p)
  PROVE  Reads(p, [s EXCEPT !.i = @ + 1, !.vec = Append(@, PatternError)])
  <1>1. /\ s.vec \in Seq(Piece) /\ s.nstr \in Seq(Signs) /\ s.i \in 1..Len(p)
    BY DEF Reads, Scan
  <1>2. Append(s.vec, PatternError) \in Seq(Piece)
        /\ ~Clean(Append(s.vec, PatternError))
    <2>1. PatternError \in Piece /\ PatternError.kind = "error"
      BY PieceType DEF PatternError
    <2> QED BY <1>1, <2>1, CleanAppend
  <1>3. s \in Scan /\ Len(p) \in Nat
    BY DEF Reads
  <1> DEFINE t == [s EXCEPT !.i = @ + 1, !.vec = Append(@, PatternError)]
  <1>4. t.i = s.i + 1 /\ t.vec = Append(s.vec, PatternError)
    BY <1>3 DEF Scan
  <1>5. t \in Scan
    <2>1. s.i + 1 \in Nat /\ Append(s.vec, PatternError) \in Seq(Piece)
      BY <1>1, <1>2
    <2> QED BY <1>3, <2>1 DEF Scan
  <1> HIDE DEF t
  <1>6. t.i \in 1..(Len(p) + 1) /\ ~Clean(t.vec)
    BY <1>1, <1>2, <1>3, <1>4
  <1>7. Reads(p, t)
    BY <1>5, <1>6 DEF Reads
  <1> QED BY <1>7 DEF t

\* A piece that is written as the characters from the position to m.
LEMMA PieceReads ==
  ASSUME NEW p \in Seq(Signs), NEW s, Reads(p, s), NEW x \in Piece,
         NEW m \in s.i..Len(p), Written(x) = SubSeq(p, s.i, m)
  PROVE  Reads(p, [i |-> m + 1, nstr |-> <<>>, vec |-> Append(Flush(s), x)])
  <1>1. /\ Flush(s) \in Seq(Piece)
        /\ Clean(Flush(s)) => Spelled(Flush(s)) = SubSeq(p, 1, s.i - 1)
    BY FlushReads
  <1>2. /\ Append(Flush(s), x) \in Seq(Piece)
        /\ Clean(Append(Flush(s), x)) => Clean(Flush(s))
    BY <1>1, CleanAppend
  <1>3. s.i \in 1..(Len(p) + 1) /\ Len(p) \in Nat
    BY DEF Reads
  <1>4. ASSUME Clean(Append(Flush(s), x))
        PROVE  Spelled(Append(Flush(s), x)) \o <<>> = SubSeq(p, 1, m)
    <2>1. Spelled(Append(Flush(s), x)) = SubSeq(p, 1, s.i - 1) \o SubSeq(p, s.i, m)
      BY <1>1, <1>2, <1>4, SpelledAppend
    <2>2. SubSeq(p, 1, s.i - 1) \o SubSeq(p, (s.i - 1) + 1, m) = SubSeq(p, 1, m)
      <3>1. 1 \in 1..(Len(p) + 1) /\ s.i - 1 \in (1 - 1)..Len(p)
            /\ m \in (s.i - 1)..Len(p)
        BY <1>3
      <3> QED BY <3>1, ConcatAdjacentSubSeq
    <2>3. (s.i - 1) + 1 = s.i
      BY <1>3
    <2>4. Spelled(Append(Flush(s), x)) = SubSeq(p, 1, m)
      BY <2>1, <2>2, <2>3
    <2>5. Spelled(Append(Flush(s), x)) \in Seq(Signs)
      BY <1>2, PieceType, SpelledAppend
    <2> QED BY <2>4, <2>5, ConcatEmptySeq
  <1>5. <<>> \in Seq(Signs) /\ m + 1 \in Nat /\ m + 1 \in 1..(Len(p) + 1)
        /\ (m + 1) - 1 = m
    BY <1>3
  <1> QED BY <1>2, <1>4, <1>5 DEF Reads, Scan

LEMMA ItemReads ==
  ASSUME NEW p \in Seq(Signs), NEW s, Reads(p, s), s.i <= Len(p), p[s.i] = "%"
  PROVE  /\ Reads(p, TakeItem(p, s))
         /\ TakeItem(p, s).i > s.i
  <1> DEFINE n == NameEnd(p, s.i + 1)
             x == Item(SubSeq(p, s.i + 1, n - 1), <<>>)
  <1>1. /\ s.i \in 1..Len(p) /\ Len(p) \in Nat
    BY DEF Reads, Scan
  <1>2. n \in (s.i + 1)..(Len(p) + 1)
    BY <1>1, NameEnds
  <1>3. TakeItem(p, s) = [i |-> n, nstr |-> <<>>, vec |-> Append(Flush(s), x)]
    BY DEF TakeItem, NameEnd
  <1> HIDE DEF n
  <1>4. SubSeq(p, s.i + 1, n - 1) \in Seq(Signs)
    BY <1>1, <1>2, SubSeqType
  <1>5. <<>> \in Seq(Signs)
    OBVIOUS
  <1>6. x \in Piece
    BY <1>4, <1>5, PieceType
  <1>7. Written(x) = SubSeq(p, s.i, n - 1)
    <2>1. Written(x) = <<"%">> \o SubSeq(p, s.i + 1, n - 1) \o <<>>
      BY DEF Written, Item
    <2>2. SubSeq(p, s.i, n - 1) = <<p[s.i]>> \o SubSeq(p, s.i + 1, n - 1)
      <3>1. n - 1 \in s.i..Len(p)
        BY <1>1, <1>2
      <3> QED BY <1>1, <3>1, SubSeqRecursiveFirst
    <2>3. SubSeq(p, s.i, n - 1) \in Seq(Signs)
      BY <1>1, <1>2, SubSeqType
    <2> QED BY <2>1, <2>2, <2>3, ConcatEmptySeq
  <1> HIDE DEF x
  <1>8. n - 1 \in s.i..Len(p) /\ (n - 1) + 1 = n
    BY <1>1, <1>2
  <1>9. Reads(p, [i |-> (n - 1) + 1, nstr |-> <<>>, vec |-> Append(Flush(s), x)])
    BY <1>6, <1>7, <1>8, PieceReads
  <1>10. n > s.i
    BY <1>1, <1>2
  <1>11. TakeItem(p, s) = [i |-> (n - 1) + 1, nstr |-> <<>>,
                           vec |-> Append(Flush(s), x)]
    BY <1>3, <1>8
  <1>12. TakeItem(p, s).i = n
    BY <1>3
  <1> QED BY <1>9, <1>10, <1>11, <1>12

LEMMA BracesReads ==
  ASSUME NEW p \in Seq(Signs), ~EmptyBraces(p), NEW s, Reads(p, s),
         s.i <= Len(p), p[s.i] = "%",
         NameEnd(p, s.i + 1) <= Len(p), p[NameEnd(p, s.i + 1)] = Open
  PROVE  /\ Reads(p, TakeBraces(p, s))
         /\ TakeBraces(p, s).i > s.i
  <1> DEFINE n == NameEnd(p, s.i + 1)
             m == BraceEnd(p, n + 1)
             x == Item(SubSeq(p, s.i + 1, n - 1), SubSeq(p, n + 1, m - 1))
             e == [s EXCEPT !.i = @ + 1, !.vec = Append(@, PatternError)]
  <1>1. /\ s.i \in 1..Len(p) /\ Len(p) \in Nat /\ s \in Scan
    BY DEF Reads, Scan
  <1>2. n \in (s.i + 1)..Len(p)
    BY <1>1, NameEnds
  <1>3. TakeBraces(p, s) = IF m > Len(p) THEN e
          ELSE [i |-> m + 1, nstr |-> <<>>, vec |-> Append(Flush(s), x)]
    BY DEF TakeBraces, NameEnd, BraceEnd
  <1>4. m = Len(p) + 1 \/ (m \in (n + 1)..Len(p) /\ p[m] = Close)
    <2>1. n + 1 \in Nat
      BY <1>1, <1>2
    <2> HIDE DEF n
    <2> QED BY <2>1, BraceEnds
  <1>0. p[n] = Open
    OBVIOUS
  <1> HIDE DEF n, m
  <1>5. CASE m > Len(p)
    <2>1. TakeBraces(p, s) = e
      BY <1>3, <1>5
    <2>2. Reads(p, e)
      BY ErrorReads
    <2>3. e.i = s.i + 1 /\ s.i + 1 > s.i
      BY <1>1 DEF Scan
    <2> HIDE DEF e
    <2> QED BY <2>1, <2>2, <2>3
  <1>6. CASE ~(m > Len(p))
    <2>1. m \in (n + 1)..Len(p) /\ p[m] = Close
      BY <1>1, <1>4, <1>6
    <2>2. m # n + 1
      <3>1. SUFFICES ASSUME m = n + 1 PROVE FALSE
        OBVIOUS
      <3>2. m \in 2..Len(p) /\ p[m - 1] = Open /\ p[m] = Close
        BY <1>0, <1>1, <1>2, <2>1, <3>1
      <3> QED BY <3>2, Zenon DEF EmptyBraces, Open, Close
    <2> DEFINE name == SubSeq(p, s.i + 1, n - 1)
               fmt == SubSeq(p, n + 1, m - 1)
    <2>3. name \in Seq(Signs) /\ fmt \in Seq(Signs)
      BY <1>1, <1>2, <2>1, SubSeqType
    <2>4. fmt # <<>>
      <3>1. Len(fmt) = (m - 1) - (n + 1) + 1 /\ Len(fmt) # 0
        BY <1>1, <1>2, <2>1, <2>2
      <3> HIDE DEF fmt
      <3> QED BY <3>1
    <2>5. x \in Piece
      BY <2>3, PieceType
    <2>6. Written(x) = <<"%">> \o name \o (<<Open>> \o fmt \o <<Close>>)
      BY <2>4, Zenon DEF Written, Item, Open, Close
    <2> HIDE DEF x
    <2>7. Written(x) = SubSeq(p, s.i, m)
      <3>1. SubSeq(p, s.i, n - 1) = <<"%">> \o name
        <4>1. n - 1 \in s.i..Len(p)
          BY <1>1, <1>2
        <4> QED BY <1>1, <4>1, SubSeqRecursiveFirst
      <3>2. SubSeq(p, n, m - 1) = <<Open>> \o fmt
        <4>1. m - 1 \in n..Len(p) /\ n \in 1..Len(p)
          BY <1>1, <1>2, <2>1
        <4> QED BY <1>0, <4>1, SubSeqRecursiveFirst
      <3>3. SubSeq(p, n, m) = SubSeq(p, n, m - 1) \o <<Close>>
        <4>1. m \in n..Len(p) /\ n \in 1..Len(p)
          BY <1>1, <1>2, <2>1
        <4> QED BY <2>1, <4>1, SubSeqRecursiveSecond
      <3>4. SubSeq(p, s.i, n - 1) \o SubSeq(p, (n - 1) + 1, m) = SubSeq(p, s.i, m)
        <4>1. s.i \in 1..(Len(p) + 1) /\ n - 1 \in (s.i - 1)..Len(p)
              /\ m \in (n - 1)..Len(p)
          BY <1>1, <1>2, <2>1
        <4> QED BY <4>1, ConcatAdjacentSubSeq
      <3>5. (n - 1) + 1 = n
        BY <1>1, <1>2
      <3> QED BY <2>6, <3>1, <3>2, <3>3, <3>4, <3>5
    <2>8. m \in s.i..Len(p) /\ m + 1 > s.i
      BY <1>1, <1>2, <2>1
    <2>9. Reads(p, [i |-> m + 1, nstr |-> <<>>, vec |-> Append(Flush(s), x)])
      BY <2>5, <2>7, <2>8, PieceReads
    <2> QED BY <1>3, <1>6, <2>8, <2>9
  <1> QED BY <1>5, <1>6

LEMMA RoundIs ==
  ASSUME NEW p, NEW s
  PROVE  Round(p, s) =
           IF s.i > Len(p) THEN s
           ELSE IF p[s.i] # "%" \/ (s.i < Len(p) /\ p[s.i + 1] = "%")
             THEN [s EXCEPT !.i = @ + 1, !.nstr = Append(@, p[s.i])]
           ELSE IF /\ NameEnd(p, s.i + 1) <= Len(p)
                   /\ p[NameEnd(p, s.i + 1)] = Open
             THEN TakeBraces(p, s) ELSE TakeItem(p, s)
  BY Zenon DEF Round, NameEnd, Open

LEMMA RoundReads ==
  ASSUME NEW p \in Seq(Signs), ~EmptyBraces(p), NEW s, Reads(p, s)
  PROVE  /\ Reads(p, Round(p, s))
         /\ s.i <= Len(p) => Round(p, s).i > s.i
  <1>1. s \in Scan /\ s.i \in 1..(Len(p) + 1) /\ Len(p) \in Nat
    BY DEF Reads
  <1>2. CASE s.i > Len(p)
    <2>1. Round(p, s) = s
      BY <1>2, RoundIs, Zenon
    <2>2. ~(s.i <= Len(p))
      BY <1>1, <1>2
    <2> QED BY <2>1, <2>2
  <1>3. CASE s.i <= Len(p)
        /\ (p[s.i] # "%" \/ (s.i < Len(p) /\ p[s.i + 1] = "%"))
    <2> DEFINE t == [s EXCEPT !.i = @ + 1, !.nstr = Append(@, p[s.i])]
    <2>1. Round(p, s) = t
      <3>1. ~(s.i > Len(p))
        BY <1>1, <1>3
      <3> QED BY <1>3, <3>1, RoundIs, Zenon
    <2>2. Reads(p, t)
      BY <1>3, TextReads
    <2>3. t.i = s.i + 1 /\ s.i + 1 > s.i
      BY <1>1 DEF Scan
    <2> HIDE DEF t
    <2> QED BY <2>1, <2>2, <2>3
  <1>4. CASE s.i <= Len(p) /\ p[s.i] = "%"
        /\ ~(s.i < Len(p) /\ p[s.i + 1] = "%")
    <2> DEFINE n == NameEnd(p, s.i + 1)
    <2>1. Round(p, s) = IF n <= Len(p) /\ p[n] = Open THEN TakeBraces(p, s)
                                                    ELSE TakeItem(p, s)
      <3>1. ~(s.i > Len(p))
        BY <1>1, <1>4
      <3> QED BY <1>4, <3>1, RoundIs, Zenon
    <2> QED BY <1>4, <2>1, ItemReads, BracesReads
  <1> QED BY <1>1, <1>2, <1>3, <1>4
LEMMA StartReads ==
  ASSUME NEW p \in Seq(Signs)
  PROVE  Reads(p, Start)
  <1>1. <<>> \in Seq(Signs) /\ <<>> \in Seq(Piece) /\ Len(p) \in Nat
    OBVIOUS
  <1>2. Start \in Scan /\ Start.i \in 1..(Len(p) + 1)
    BY <1>1 DEF Start, Scan
  <1>3. Spelled(<<>>) \o <<>> = SubSeq(p, 1, 0)
    <2>1. <<>> \o <<>> = <<>>
      BY <1>1, ConcatEmptySeq
    <2>2. SubSeq(p, 1, 0) = <<>>
      BY SubSeqEmpty
    <2> QED BY <2>1, <2>2, SpelledEmpty
  <1>4. Start.vec = <<>> /\ Start.nstr = <<>> /\ Start.i - 1 = 0
    BY DEF Start
  <1> QED BY <1>2, <1>3, <1>4 DEF Reads

\* The rounds of the outer loop: the last one leaves nothing to read.
LEMMA PiecesRead ==
  ASSUME NEW p \in Seq(Signs), ~EmptyBraces(p)
  PROVE  \E s : Reads(p, s) /\ s.i = Len(p) + 1 /\ Pieces(p) = Flush(s)
  <1> DEFINE n == Len(p)
             R == {s \in Scan : Reads(p, s)}
             Body(f) == [k \in 0..n |-> IF k = 0 THEN Start ELSE Round(p, f[k - 1])]
             step == [q \in Nat \X R |-> Round(p, q[2])]
  <1>1. n \in Nat /\ Start \in R /\ \A s \in R : Round(p, s) \in R
    <2>1. n \in Nat
      OBVIOUS
    <2>3. Start \in R
      <3>1. Reads(p, Start)
        BY StartReads
      <3> QED BY <3>1 DEF Reads
    <2>2. ASSUME NEW s \in R PROVE Round(p, s) \in R
      <3>1. Reads(p, Round(p, s))
        BY RoundReads
      <3> QED BY <3>1 DEF Reads
    <2> HIDE DEF R
    <2> QED BY <2>1, <2>2, <2>3
  <1>2. \A s \in R : Reads(p, s) /\ s.i \in 1..(n + 1)
    BY DEF Reads
  <1>3. \A s \in R : s.i <= n => Round(p, s).i > s.i
    BY RoundReads
  <1>4. step \in [Nat \X R -> R]
    <2> HIDE DEF R
    <2> QED BY <1>1
  <1> HIDE DEF R
  <1>5. PICK g \in [Nat -> R] :
          g[0] = Start /\ \A k \in Nat : g[k + 1] = Round(p, g[k])
    <2>1. \A k \in Nat : \A s \in R : step[<<k, s>>] = Round(p, s)
      OBVIOUS
    <2> HIDE DEF step
    <2>2. Iterable(Start, step, R)
      BY <1>1, <1>4, Iterates
    <2>3. PICK g \in [Nat -> R] :
            g[0] = Start /\ \A k \in Nat : g[k + 1] = step[<<k, g[k]>>]
      BY <2>2 DEF Iterable
    <2>4. \A k \in Nat : g[k + 1] = Round(p, g[k])
      BY <2>1, <2>3
    <2> QED BY <2>3, <2>4
  <1> DEFINE h == [k \in 0..n |-> g[k]]
  <1>6. h = Body(h)
    <2>1. \A k \in 0..n : h[k] = Body(h)[k]
      <3> TAKE k \in 0..n
      <3>1. CASE k = 0
        BY <1>1, <1>5, <3>1
      <3>2. CASE k # 0
        <4>1. k - 1 \in Nat /\ (k - 1) + 1 = k /\ k - 1 \in 0..n
          BY <1>1, <3>2
        <4>2. g[(k - 1) + 1] = Round(p, g[k - 1])
          BY <1>5, <4>1
        <4>3. h[k] = g[k] /\ h[k - 1] = g[k - 1]
          BY <4>1
        <4> HIDE DEF h
        <4> QED BY <3>2, <4>1, <4>2, <4>3
      <3> QED BY <3>1, <3>2
    <2>2. h = [k \in 0..n |-> h[k]]
      OBVIOUS
    <2> HIDE DEF h
    <2> QED BY <2>1, <2>2
  <1> DEFINE L == CHOOSE f : f = Body(f)
  <1>7. L = Body(L)
    <2> HIDE DEF h, Body
    <2> QED BY <1>6
  <1>8. Pieces(p) = Flush(L[n])
    BY Zenon DEF Pieces
  <1> HIDE DEF L, Body
  <1>9. L[0] = Start /\ \A k \in 1..n : L[k] = Round(p, L[k - 1])
    <2>1. L[0] = Start
      BY <1>1, <1>7 DEF Body
    <2>2. ASSUME NEW k \in 1..n PROVE L[k] = Round(p, L[k - 1])
      <3>1. k \in 0..n /\ k # 0
        BY <1>1
      <3>2. Body(L)[k] = Round(p, L[k - 1])
        BY <3>1 DEF Body
      <3> QED BY <1>7, <3>2
    <2> QED BY <2>1, <2>2
  <1> DEFINE I == {k \in Nat : k <= n => L[k] \in R /\ L[k].i >= k + 1}
  <1>10. I = Nat
    <2>1. 0 \in I
      <3>1. Start.i = 1
        BY DEF Start
      <3> QED BY <1>1, <1>9, <3>1
    <2>2. ASSUME NEW k \in I PROVE k + 1 \in I
      <3>1. CASE k + 1 <= n
        <4>1. k \in Nat /\ k + 1 \in 1..n /\ (k + 1) - 1 = k
              /\ L[k] \in R /\ L[k].i >= k + 1
          BY <1>1, <3>1
        <4>2. L[k + 1] = Round(p, L[k])
          BY <1>9, <4>1
        <4>3. L[k + 1] \in R /\ L[k + 1].i \in 1..(n + 1) /\ L[k].i \in 1..(n + 1)
          BY <1>1, <1>2, <4>1, <4>2
        <4>4. L[k + 1].i >= (k + 1) + 1
          <5>1. L[k].i <= n => L[k + 1].i > L[k].i
            BY <1>3, <4>1, <4>2
          <5>2. CASE L[k].i <= n
            BY <1>1, <4>1, <4>3, <5>1, <5>2
          <5>3. CASE ~(L[k].i <= n)
            <6>1. L[k + 1] = L[k]
              <7>1. L[k].i > Len(p)
                BY <1>1, <4>3, <5>3
              <7>2. Round(p, L[k]) = L[k]
                BY <7>1, RoundIs, Zenon
              <7> QED BY <4>2, <7>2
            <6> QED BY <1>1, <3>1, <4>1, <4>3, <5>3, <6>1
          <5> QED BY <5>2, <5>3
        <4> QED BY <4>1, <4>3, <4>4
      <3>2. CASE ~(k + 1 <= n)
        BY <3>2
      <3> QED BY <3>1, <3>2
    <2>3. I \in SUBSET Nat
      OBVIOUS
    <2> HIDE DEF I
    <2> QED BY <2>1, <2>2, <2>3, SetInduction
  <1>11. L[n] \in R /\ L[n].i >= n + 1
    <2>1. n \in I
      <3> HIDE DEF I
      <3> QED BY <1>1, <1>10
    <2> QED BY <1>1, <2>1
  <1>12. Reads(p, L[n]) /\ L[n].i = n + 1
    BY <1>1, <1>2, <1>11
  <1> QED BY <1>8, <1>12

\* LogFormatter::init (log.cc) walks an accepted pattern of any length without
\* dropping a character or using one twice: the pieces it makes, written one
\* after the other, are the pattern.  A "%%" is no escape here, whatever the
\* comments say: its second sign begins the next item.
THEOREM PatternWhole ==
  ASSUME NEW p \in Seq(Chars), ~EmptyBraces(p), Accepted(p)
  PROVE  Whole(p)
  <1>1. p \in Seq(Signs)
    <2>1. Chars \subseteq Signs
      BY DEF Signs
    <2> QED BY <2>1, SeqMonotonic
  <1>2. PICK s : Reads(p, s) /\ s.i = Len(p) + 1 /\ Pieces(p) = Flush(s)
    BY <1>1, PiecesRead
  <1>3. Clean(Pieces(p))
    BY DEF Accepted, Known, Clean
  <1>4. Spelled(Pieces(p)) = SubSeq(p, 1, s.i - 1)
    BY <1>1, <1>2, <1>3, FlushReads
  <1>5. s.i - 1 = Len(p)
    BY <1>2
  <1>6. Spelled(Pieces(p)) = p
    BY <1>4, <1>5, SubSeqFull
  <1> QED BY <1>6 DEF Whole, Spelled
=============================================================================
