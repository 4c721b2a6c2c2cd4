--------------------------- MODULE MCReportCache ---------------------------
(***************************************************************************)
(* Two processes with one screen each; a process and its screen may be     *)
(* exchanged with the other two.                                           *)
(***************************************************************************)
EXTENDS ReportCache, TLC

CONSTANTS p1, p2, r1, r2

MCProcs == {p1, p2}
OneWriter == {p1}
MCReaders == {r1, r2}
Apart == (r1 :> p1) @@ (r2 :> p2)
Exchanged == {f \in Permutations(MCProcs \cup MCReaders) :
    \A r \in MCReaders : f[r] \in MCReaders /\ f[Apart[r]] = Apart[f[r]]}
SafeSpec == Init /\ [][Next]_vars
=============================================================================
