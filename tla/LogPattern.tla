----------------------------- MODULE LogPattern -----------------------------
(***************************************************************************)
(* How LogFormatter reads a pattern (LogFormatter::init, log.cc): text,    *)
(* items like %d, and items with a format of their own like %d{%H:%M}.     *)
(* Patterns are sequences of one-character strings.                        *)
(***************************************************************************)
EXTENDS Naturals, Sequences, SequencesExt, FiniteSetsExt

CONSTANTS
    Chars,        \* the characters of patterns
    Letters,      \* those isalpha accepts
    ItemNames     \* the keys of s_format_items

ASSUME PatternAssumption ==
    /\ Letters \subseteq Chars \ {"%", "{", "}"}
    /\ ItemNames \subseteq Letters

Text(s) == [kind |-> "text", str |-> s, fmt |-> <<>>]
Item(s, f) == [kind |-> "item", str |-> s, fmt |-> f]
PatternError == [kind |-> "error", str |-> <<>>, fmt |-> <<>>]

\* The first position from n on that has property P; past the end if none.
FirstFrom(p, n, P(_)) ==
    Min({k \in n..Len(p) : P(p[k])} \cup {Len(p) + 1})

\* init()'s locals: the position, the text collected, the pieces found.
Start == [i |-> 1, nstr |-> <<>>, vec |-> <<>>]

Flush(s) == IF s.nstr = <<>> THEN s.vec ELSE Append(s.vec, Text(s.nstr))

\* An item's name goes on while there are letters, or a stray "}".
EndsName(c) == c \notin Letters \cup {"}"}

\* "%" and a name.
TakeItem(p, s) ==
    LET n == FirstFrom(p, s.i + 1, EndsName) IN
    [i |-> n, nstr |-> <<>>,
     vec |-> Append(Flush(s), Item(SubSeq(p, s.i + 1, n - 1), <<>>))]

\* "%", a name and a format in braces; without the closing brace the "%" is
\* skipped and the error noted, before the text that precedes it.
TakeBraces(p, s) ==
    LET n == FirstFrom(p, s.i + 1, EndsName)
        m == FirstFrom(p, n + 1, LAMBDA c : c = "}") IN
    IF m > Len(p)
      THEN [s EXCEPT !.i = @ + 1, !.vec = Append(@, PatternError)]
      ELSE [i |-> m + 1, nstr |-> <<>>,
            vec |-> Append(Flush(s), Item(SubSeq(p, s.i + 1, n - 1),
                                          SubSeq(p, n + 1, m - 1)))]

\* One round of the outer loop.  Of "%%" the first is text, and the loop goes
\* on with the second one, as the beginning of an item.  (By the comments the
\* second one is a character like any other.)
Round(p, s) ==
    IF s.i > Len(p) THEN s
    ELSE IF p[s.i] # "%" \/ (s.i < Len(p) /\ p[s.i + 1] = "%")
      THEN [s EXCEPT !.i = @ + 1, !.nstr = Append(@, p[s.i])]
    ELSE LET n == FirstFrom(p, s.i + 1, EndsName) IN
         IF n <= Len(p) /\ p[n] = "{" THEN TakeBraces(p, s)
                                      ELSE TakeItem(p, s)

\* The pieces of a pattern, and whether it is accepted (~m_error).
Pieces(p) ==
    LET s[k \in 0..Len(p)] == IF k = 0 THEN Start ELSE Round(p, s[k - 1])
    IN Flush(s[Len(p)])
Known(piece) ==
    \/ piece.kind = "text"
    \/ piece.kind = "item" /\ piece.str \in {<<c>> : c \in ItemNames}
Accepted(p) == \A k \in DOMAIN Pieces(p) : Known(Pieces(p)[k])

-----------------------------------------------------------------------------
\* A piece as it stands in a pattern.
Written(piece) ==
    IF piece.kind = "text" THEN piece.str
    ELSE <<"%">> \o piece.str \o
         (IF piece.fmt = <<>> THEN <<>> ELSE <<"{">> \o piece.fmt \o <<"}">>)

\* A format in empty braces is no format: its braces cannot be told from
\* none.
EmptyBraces(p) == \E k \in 2..Len(p) : p[k - 1] = "{" /\ p[k] = "}"

\* The pieces, written one after the other, are the pattern: no character is
\* dropped or used twice.  (This says what the code reads, not what its
\* comments announce: "%%d" is read as the text "%" and the item "%d".)
Whole(p) ==
    FlattenSeq([k \in DOMAIN Pieces(p) |-> Written(Pieces(p)[k])]) = p
=============================================================================
