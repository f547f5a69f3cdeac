----------------------------- MODULE LogConfig -----------------------------
(***************************************************************************)
(* The loggers and their configuration.  The variable "logs" (a ConfigVar, *)
(* config.h) holds a set of definitions; when it is set, the listener of   *)
(* log_config.h rebuilds every logger whose definition has changed, step   *)
(* by step, while other threads log (log.cc).                              *)
(*                                                                         *)
(* setValue calls the listener under the variable's read lock and stores   *)
(* the value under its write lock; each step of the listener takes one     *)
(* logger's spinlock.  A thread that logs holds its logger's spinlock      *)
(* while it writes to the logger's appenders, and also while it passes the *)
(* line on to the root logger.                                             *)
(*                                                                         *)
(* Appenders made from a definition pass every level (their level is never *)
(* read from the text), so appenders have none here.                       *)
(***************************************************************************)
EXTENDS Naturals, Sequences, FiniteSets, Lists

CONSTANTS
    Setters,      \* threads that set the variable (LoadFromYaml)
    Writers,      \* threads that log
    Names,        \* the names of the loggers
    Root,         \* "root"
    NoName,       \* a definition without a name
    Formats,      \* patterns that LogFormatter accepts
    DefaultFormat,\* the pattern of a new Logger
    BadFormat,    \* a pattern it refuses
    NoFormat,     \* no pattern given
    Texts,        \* the texts of "logs": sequences of nodes
    LineLevels,   \* the levels of the lines logged
    MaxSets,      \* bound: values set
    MaxLines      \* bound: lines logged

Off == 100        \* the level of a logger whose definition was removed
Debug == 1        \* LogLevel::DEBUG, the level of a new Logger

Patterns == Formats \cup {BadFormat, NoFormat}
AppenderNode ==
    [type : {"File", "Stdout", "Other"}, file : BOOLEAN, formatter : Patterns]
Node ==
    [name : Names \cup {NoName}, level : 0..5, formatter : Patterns,
     appenders : Seq(AppenderNode)]

ASSUME NamesAssumption ==
    /\ Root \in Names /\ NoName \notin Names
    /\ DefaultFormat \in Formats
    /\ BadFormat \notin Formats /\ NoFormat \notin Formats
    /\ BadFormat # NoFormat
ASSUME TextsAssumption == Texts \subseteq Seq(Node)
ASSUME LevelsAssumption ==
    /\ LineLevels \subseteq 1..5
    /\ MaxSets \in Nat /\ MaxLines \in Nat

VARIABLES
    defines,      \* m_val of "logs": a definition per name
    logger,       \* level, formatter and appenders of each Logger
    pc,           \* where each setter is in setValue
    new,          \* the value it sets
    todo,         \* the loggers its listener has still to rebuild
    cur,          \* the one it is rebuilding
    added,        \* how many appenders that one has got
    at,           \* where each writer is in Logger::log
    line,         \* the logger and level of its line
    lost,         \* history: lines that found no appender
    sets, lines   \* counters of the bounds

setterVars == <<pc, new, todo, cur, added>>
writerVars == <<at, line, lost, lines>>
vars == <<defines, logger, setterVars, writerVars, sets>>

-----------------------------------------------------------------------------
(* The texts: what LexicalCast makes of them.                              *)

\* A file appender without a file and an unknown type are left out.
Usable ==
    {a \in AppenderNode : a.type = "Stdout" \/ (a.type = "File" /\ a.file)}

\* The appenders are read only if the definition gives a formatter.
ReadDefine(node) ==
    [level     |-> node.level,
     formatter |-> node.formatter,
     appenders |-> IF node.formatter = NoFormat THEN <<>>
                   ELSE Only(node.appenders, Usable)]

\* A name without a definition; what the listener does with one.
NoDefine == [level |-> Off, formatter |-> NoFormat, appenders |-> <<>>]

\* A node without a name throws: nothing is set.
Readable(text) == \A i \in DOMAIN text : text[i].name # NoName

\* std::set keeps the first definition of a name.
FirstOf(text, n) ==
    CHOOSE i \in DOMAIN text :
        text[i].name = n /\ \A k \in 1..(i - 1) : text[k].name # n
FromYaml(text) ==
    [n \in Names |->
       IF \E i \in DOMAIN text : text[i].name = n
         THEN ReadDefine(text[FirstOf(text, n)]) ELSE NoDefine]

\* LogDefine and LogAppenderDefine.
AppenderDefine ==
    [type : {"File", "Stdout"}, file : BOOLEAN, formatter : Patterns]
Define ==
    [level : Nat, formatter : Patterns, appenders : Seq(AppenderDefine)]

-----------------------------------------------------------------------------
Appender == [type : {"File", "Stdout"}, own : BOOLEAN, formatter : Formats]

\* What the listener makes of one appender: its own formatter if it is
\* given and valid, else the one addAppender finds in the logger.
Made(a, f) ==
    [type |-> a.type, own |-> a.formatter \in Formats,
     formatter |-> IF a.formatter \in Formats THEN a.formatter ELSE f]

Fresh(n) ==
    [level     |-> Debug,
     formatter |-> DefaultFormat,
     appenders |-> IF n = Root
                     THEN <<[type |-> "Stdout", own |-> FALSE,
                             formatter |-> DefaultFormat]>>
                     ELSE <<>>]

Init ==
    /\ defines = [n \in Names |-> NoDefine]
    /\ logger = [n \in Names |-> Fresh(n)]
    /\ pc = [s \in Setters |-> "free"]
    /\ new = [s \in Setters |-> [n \in Names |-> NoDefine]]
    /\ todo = [s \in Setters |-> {}]
    /\ cur = [s \in Setters |-> Root]
    /\ added = [s \in Setters |-> 0]
    /\ at = [w \in Writers |-> "free"]
    /\ line = [w \in Writers |-> [name |-> Root, level |-> 1]]
    /\ lost = 0 /\ sets = 0 /\ lines = 0

-----------------------------------------------------------------------------
(* setValue and the listener.                                              *)

Announcing == {"pick", "format", "clear", "add"}
PcValues == {"free", "store"} \cup Announcing

Goto(s, place) == pc' = [pc EXCEPT ![s] = place]

\* The spinlock of n is free: nobody passes a line of n on to the root.
LockFree(n) == \A w \in Writers : at[w] = "toRoot" => line[w].name # n

\* fromString and setValue up to the listener: the read lock is taken.  The
\* same value again changes nothing.
SetBegin(s) ==
    /\ pc[s] = "free"
    /\ sets < MaxSets
    /\ sets' = sets + 1
    /\ \E text \in Texts :
         /\ Readable(text)
         /\ FromYaml(text) # defines
         /\ new' = [new EXCEPT ![s] = FromYaml(text)]
         /\ todo' = [todo EXCEPT ![s] =
                       {n \in Names : FromYaml(text)[n] # defines[n]}]
    /\ Goto(s, "pick")
    /\ UNCHANGED <<defines, logger, cur, added, writerVars>>

\* Mutants: the count of appenders is not reset; the logger is not ticked off.
SetLevelKeepsCount(s) ==
    /\ pc[s] = "pick"
    /\ \E n \in todo[s] :
         /\ new[s][n] = NoDefine => \A m \in todo[s] : new[s][m] = NoDefine
         /\ logger' = [logger EXCEPT ![n].level = new[s][n].level]
         /\ todo' = [todo EXCEPT ![s] = @ \ {n}]
         /\ cur' = [cur EXCEPT ![s] = n]
         /\ Goto(s, IF new[s][n].formatter = NoFormat THEN "clear"
                                                      ELSE "format")
    /\ UNCHANGED <<defines, new, added, writerVars, sets>>
SetLevelAgain(s) ==
    /\ pc[s] = "pick"
    /\ \E n \in todo[s] :
         /\ logger' = [logger EXCEPT ![n].level = new[s][n].level]
         /\ cur' = [cur EXCEPT ![s] = n]
         /\ Goto(s, IF new[s][n].formatter = NoFormat THEN "clear"
                                                      ELSE "format")
    /\ added' = [added EXCEPT ![s] = 0]
    /\ UNCHANGED <<defines, new, todo, writerVars, sets>>

\* The listener turns to a logger, those with a definition first, and sets
\* its level.  (The code takes them in the order of their names.)
SetLevel(s) ==
    /\ pc[s] = "pick"
    /\ \E n \in todo[s] :
         /\ new[s][n] = NoDefine => \A m \in todo[s] : new[s][m] = NoDefine
         /\ logger' = [logger EXCEPT ![n].level = new[s][n].level]
         /\ todo' = [todo EXCEPT ![s] = @ \ {n}]
         /\ cur' = [cur EXCEPT ![s] = n]
         /\ Goto(s, IF new[s][n].formatter = NoFormat THEN "clear"
                                                      ELSE "format")
    /\ added' = [added EXCEPT ![s] = 0]
    /\ UNCHANGED <<defines, new, writerVars, sets>>

\* Mutant: the appenders are not told.
SetFormatterSelf(s) ==
    LET n == cur[s]  f == new[s][n].formatter IN
    /\ pc[s] = "format"
    /\ LockFree(n)
    /\ logger' = IF f \notin Formats THEN logger
                 ELSE [logger EXCEPT ![n].formatter = f]
    /\ Goto(s, "clear")
    /\ UNCHANGED <<defines, new, todo, cur, added, writerVars, sets>>

\* Logger::setFormatter: an invalid pattern is refused; appenders without a
\* formatter of their own get the new one.
SetFormatter(s) ==
    LET n == cur[s]  f == new[s][n].formatter IN
    /\ pc[s] = "format"
    /\ LockFree(n)
    /\ logger' =
         IF f \notin Formats THEN logger ELSE
           [logger EXCEPT
              ![n].formatter = f,
              ![n].appenders =
                 [i \in DOMAIN @ |->
                    IF @[i].own THEN @[i] ELSE [@[i] EXCEPT !.formatter = f]]]
    /\ Goto(s, "clear")
    /\ UNCHANGED <<defines, new, todo, cur, added, writerVars, sets>>

\* Mutant: the old appenders stay if there are new ones.
ClearAppendersRarely(s) ==
    LET n == cur[s] IN
    /\ pc[s] = "clear"
    /\ LockFree(n)
    /\ IF new[s][n].appenders = <<>>
         THEN /\ logger' = [logger EXCEPT ![n].appenders = <<>>]
              /\ Goto(s, "pick")
         ELSE UNCHANGED logger /\ Goto(s, "add")
    /\ UNCHANGED <<defines, new, todo, cur, added, writerVars, sets>>

\* Logger::clearAppenders.
ClearAppenders(s) ==
    LET n == cur[s] IN
    /\ pc[s] = "clear"
    /\ LockFree(n)
    /\ logger' = [logger EXCEPT ![n].appenders = <<>>]
    /\ Goto(s, IF new[s][n].appenders = <<>> THEN "pick" ELSE "add")
    /\ UNCHANGED <<defines, new, todo, cur, added, writerVars, sets>>

\* Logger::addAppender: an appender without a formatter gets the logger's.
AddAppender(s) ==
    LET n == cur[s]
        a == new[s][n].appenders[added[s] + 1] IN
    /\ pc[s] = "add"
    /\ LockFree(n)
    /\ logger' = [logger EXCEPT ![n].appenders =
                    Append(@, Made(a, logger[n].formatter))]
    /\ added' = [added EXCEPT ![s] = @ + 1]
    /\ Goto(s, IF added[s] + 1 = Len(new[s][n].appenders) THEN "pick"
                                                          ELSE "add")
    /\ UNCHANGED <<defines, new, todo, cur, writerVars, sets>>

\* The listener returns and the read lock is released.
SetAnnounced(s) ==
    /\ pc[s] = "pick" /\ todo[s] = {}
    /\ Goto(s, "store")
    /\ UNCHANGED <<defines, logger, new, todo, cur, added, writerVars, sets>>

\* The write lock: nobody is in a listener.
SetStore(s) ==
    /\ pc[s] = "store"
    /\ \A u \in Setters : pc[u] \notin Announcing
    /\ defines' = new[s]
    /\ Goto(s, "free")
    /\ UNCHANGED <<logger, new, todo, cur, added, writerVars, sets>>

-----------------------------------------------------------------------------
(* Logger::log.                                                            *)

\* The level is read before the lock is taken.
LogBegin(w) ==
    /\ at[w] = "free"
    /\ lines < MaxLines
    /\ lines' = lines + 1
    /\ \E n \in Names, v \in LineLevels :
         /\ v >= logger[n].level
         /\ line' = [line EXCEPT ![w] = [name |-> n, level |-> v]]
    /\ at' = [at EXCEPT ![w] = "entered"]
    /\ UNCHANGED <<defines, logger, setterVars, lost, sets>>

Has(n) == logger[n].appenders # <<>>

\* The logger's own appenders, all of them under its lock.
LogOwn(w) ==
    /\ at[w] = "entered"
    /\ LockFree(line[w].name)
    /\ Has(line[w].name)
    /\ at' = [at EXCEPT ![w] = "free"]
    /\ UNCHANGED <<defines, logger, setterVars, line, lost, lines, sets>>

\* Mutant: it has no m_root to pass it on to.
LogPassOnNot(w) ==
    LET n == line[w].name IN
    /\ at[w] = "entered"
    /\ LockFree(n) /\ ~Has(n) /\ n # Root
    /\ lost' = lost + 1
    /\ at' = [at EXCEPT ![w] = "free"]
    /\ UNCHANGED <<defines, logger, setterVars, line, lines, sets>>

\* A logger without appenders passes the line on, holding its lock.
LogPassOn(w) ==
    LET n == line[w].name IN
    /\ at[w] = "entered"
    /\ LockFree(n) /\ ~Has(n) /\ n # Root
    /\ at' = [at EXCEPT ![w] =
                IF line[w].level >= logger[Root].level THEN "toRoot"
                                                       ELSE "free"]
    /\ UNCHANGED <<defines, logger, setterVars, line, lost, lines, sets>>

\* The root logger, which has no root logger: without appenders there the
\* line is gone.
LogRoot(w) ==
    /\ \/ at[w] = "toRoot"
       \/ at[w] = "entered" /\ line[w].name = Root /\ ~Has(Root)
    /\ lost' = IF Has(Root) THEN lost ELSE lost + 1
    /\ at' = [at EXCEPT ![w] = "free"]
    /\ UNCHANGED <<defines, logger, setterVars, line, lines, sets>>

-----------------------------------------------------------------------------
SetterStep(s) ==
    \/ SetLevel(s) \/ SetFormatter(s) \/ ClearAppenders(s) \/ AddAppender(s)
    \/ SetAnnounced(s) \/ SetStore(s)
WriterStep(w) == LogOwn(w) \/ LogPassOn(w) \/ LogRoot(w)

Done ==
    /\ \A s \in Setters : pc[s] = "free"
    /\ \A w \in Writers : at[w] = "free"
    /\ UNCHANGED vars

Next ==
    \/ \E s \in Setters : SetBegin(s) \/ SetterStep(s)
    \/ \E w \in Writers : LogBegin(w) \/ WriterStep(w)
    \/ Done

Spec == Init /\ [][Next]_vars

\* Threads that have begun to set or to log go on.
FairSpec ==
    /\ Spec
    /\ \A s \in Setters : WF_vars(SetterStep(s))
    /\ \A w \in Writers : WF_vars(WriterStep(w))

-----------------------------------------------------------------------------
(* Properties.                                                             *)

LoggerType ==
    [level : Nat, formatter : Formats, appenders : Seq(Appender)]

TypeOK ==
    /\ defines \in [Names -> Define]
    /\ logger \in [Names -> LoggerType]
    /\ pc \in [Setters -> PcValues]
    /\ new \in [Setters -> [Names -> Define]]
    /\ todo \in [Setters -> SUBSET Names]
    /\ cur \in [Setters -> Names]
    /\ added \in [Setters -> Nat]
    /\ \A s \in Setters :
         pc[s] = "add" => added[s] < Len(new[s][cur[s]].appenders)
    /\ at \in [Writers -> {"free", "entered", "toRoot"}]
    /\ line \in [Writers -> [name : Names, level : Nat]]
    /\ lost \in Nat /\ sets \in Nat /\ lines \in Nat

\* An appender without a formatter of its own always writes as its logger
\* does: neither a pattern set while appenders are added nor an appender
\* added while a pattern is set leaves one behind.
Inherits ==
    \A n \in Names : \A i \in DOMAIN logger[n].appenders :
        LET a == logger[n].appenders[i] IN
        ~a.own => a.formatter = logger[n].formatter

Quiet == \A s \in Setters : pc[s] = "free"

\* The logger n is what definition d says.
Matches(n, d) ==
    /\ logger[n].level = d.level
    /\ d.formatter \in Formats => logger[n].formatter = d.formatter
    /\ logger[n].appenders =
         [i \in DOMAIN d.appenders |->
            Made(d.appenders[i], logger[n].formatter)]

\* When nobody sets it, the loggers are what the variable says: each one
\* matches its definition, and one without a definition is off or was never
\* configured.
LoggersMatch ==
    Quiet => \A n \in Names :
        \/ Matches(n, defines[n])
        \/ defines[n] = NoDefine /\ logger[n] = Fresh(n)

\* The definition of the root logger that is in force, as far as the
\* listeners have got.
RootBare ==
    \/ \E s \in Setters : pc[s] = "add" /\ cur[s] = Root /\ added[s] = 0
    \/ \E s \in Setters : /\ pc[s] # "free" /\ Root \notin todo[s]
                          /\ new[s][Root].appenders = <<>>
    \/ defines[Root].appenders = <<>>

\* A line that passed the level of its logger, and the root logger's level if
\* it is passed on (LogPassOn drops it below that, and it is not counted as
\* lost), is lost only if the root logger is between its old and its new
\* appenders, or is told to have none.
LostOnlyWhileBare == [][lost' # lost => RootBare]_vars

\* A logger's spinlock is passed on: whoever sets the variable gets through,
\* however many threads log.
SetReturns ==
    \A s \in Setters : (pc[s] # "free") ~> (pc[s] = "free")
=============================================================================
