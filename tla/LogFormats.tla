----------------------------- MODULE LogFormats -----------------------------
(***************************************************************************)
(* The loggers with the patterns of their formatters: what LogConfig calls *)
(* accepted is what LogPattern reads without an error.  (Logger            *)
(* ::setFormatter keeps the old formatter if the new one has one.)         *)
(***************************************************************************)
EXTENDS LogConfig, LogPattern

ASSUME FormatsAssumption ==
    /\ Formats \subseteq Seq(Chars)
    /\ \A p \in Formats : Accepted(p)
    /\ ~Accepted(BadFormat)
=============================================================================
