--------------------------- MODULE MCLtopTargets ---------------------------
(* Instances of LtopTargets for TLC.                                       *)
EXTENDS LtopTargets, TLC

CONSTANTS oss1, oss2, t1, t2, t3

TwoServers == {oss1, oss2}
TwoTargets == {t1, t2}
ThreeTargets == {t1, t2, t3}
OneMds == {"mds1"}
NoMds == {}
OneFs == {"lc1"}
TwoFs == {"lc1", "lc2"}
SameFs == [t \in Target |-> "lc1"]
SplitFs == [t \in Target |-> IF t = t3 THEN "lc2" ELSE "lc1"]

Says(n, recov, fields) == [n |-> n, recov |-> recov, fields |-> fields]

\* All targets alike, or t1 ahead of the others and in recovery.
OstReports ==
    {[t \in Target |-> Says(1, "COMPLETE", Field)],
     [t \in Target |-> IF t = t1 THEN Says(3, "RECOVERING", Field)
                                 ELSE Says(2, "COMPLETE", Field)]}

\* t2 is disconnected, the other OSTs are full; a stale report clears both.
OscReports == {[t \in Target |-> IF t = t2 THEN "D" ELSE "F"]}

\* MDTs that have served operations and one that has not.
MdtReports ==
    {[t \in Target |-> Says(1, "COMPLETE", Field)],
     [t \in Target |-> Says(2, "COMPLETE", IF t = t1 THEN Field \ Optional ELSE Field)]}

Symmetry == Permutations(TwoServers)
=============================================================================
