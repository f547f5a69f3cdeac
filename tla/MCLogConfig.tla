---------------------------- MODULE MCLogConfig ----------------------------
(* LogFormats on small instances: the texts, the patterns and the model    *)
(* values.                                                                 *)
EXTENDS LogFormats, TLC

CONSTANTS s1, s2, w1, w2, system

\* "%d%T%p", "%p %m" and "%t", and a pattern with an unknown item.
DefaultPattern == <<"%", "d", "%", "T", "%", "p">>
p1 == <<"%", "p", " ", "%", "m">>
p2 == <<"%", "t">>
BadPattern == <<"%", "d", "%", "x">>

AcceptedPatterns == {DefaultPattern, p1, p2}

File(f) == [type |-> "File", file |-> TRUE, formatter |-> f]
Stdout(f) == [type |-> "Stdout", file |-> FALSE, formatter |-> f]
Useless == [type |-> "File", file |-> FALSE, formatter |-> p1]

DefineNode(n, v, f, as) ==
    [name |-> n, level |-> v, formatter |-> f, appenders |-> as]

\* Both loggers; the root alone, otherwise; both again, with appenders in
\* another order, an unusable one, a name twice and a refused pattern; a
\* definition without a formatter; a text that is refused.
MCTexts ==
    { << DefineNode(Root, 2, p1, <<File(NoFormat), Stdout(p2)>>),
         DefineNode(system, 1, p2, <<Stdout(BadFormat)>>) >>,
      << DefineNode(Root, 1, p2, <<Stdout(NoFormat)>>),
         DefineNode(Root, 5, p1, <<>>) >>,
      << DefineNode(system, 2, p1, <<Useless, Stdout(NoFormat), File(p2)>>),
         DefineNode(Root, 2, BadFormat, <<Stdout(NoFormat)>>) >>,
      << DefineNode(system, 1, NoFormat, <<Stdout(p1)>>) >>,
      << DefineNode(NoName, 1, p1, <<Stdout(p1)>>) >> }
=============================================================================
