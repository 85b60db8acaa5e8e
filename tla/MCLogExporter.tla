--------------------------- MODULE MCLogExporter ----------------------------
(* Small instances of LogExporter for TLC.                                 *)
EXTENDS LogExporter

\* The third record falls past the first half of ten thousand nanoseconds.
MCTimeOf == [n \in 1 .. MaxEvents |-> IF n = 3 THEN 15000 ELSE 20000 + n]
=============================================================================
