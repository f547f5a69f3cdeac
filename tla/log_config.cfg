\* One thread sets the variable while another one logs.
SPECIFICATION FairSpec
CONSTANTS
    s1 = s1  s2 = s2  system = system
    Setters = {s1}
    Writers = {w1, w2}
    w1 = w1  w2 = w2
    Root = Root
    Names = {Root, system}
    NoName = NoName
    DefaultFormat <- DefaultPattern
    BadFormat <- BadPattern
    NoFormat = NoFormat
    Formats <- AcceptedPatterns
    Chars = {"%", "{", "}", " ", "d", "m", "p", "t", "x", "T"}
    Letters = {"d", "m", "p", "t", "x", "T"}
    ItemNames = {"d", "m", "p", "t", "T"}
    Texts <- MCTexts
    LineLevels = {1, 2}
    MaxSets = 3
    MaxLines = 3
INVARIANTS TypeOK Inherits LoggersMatch
PROPERTIES LostOnlyWhileBare SetReturns
