------------------------------ MODULE MCLmtDb ------------------------------
(* Instances of LmtDb for TLC.                                             *)
EXTENDS LmtDb

OstHost == {"oss1"}
OstSvc == {"ost1", "ost2", "ost3"}
MdtHost == {"mds1", "rtr1"}
MdtSvc == {"mdt1", "mdt2"}
MCOp == {"open", "close"}

M(t, h, s, o) == [type |-> t, host |-> h, svcs |-> s, ops |-> o]

\* One name is a prefix of the other; SHOW DATABASES sorts them.
MCFsName == {"lc", "lc1", "lc10"}
OneFs == <<"lc1">>
TwoFs == <<"lc1", "lc10">>
SameFs == [s \in Svc |-> "lc1"]
\* lc has no database, so that its targets end up in lc1.
HomelessFs == [s \in Svc |-> CASE s = "ost1" -> "lc1" [] s = "ost2" -> "lc" [] OTHER -> "lc10"]
SplitFs == [s \in Svc |-> IF s \in {"ost2", "mdt2"} THEN "lc10" ELSE "lc1"]
MCPrefix == {<<f, f>> : f \in MCFsName}
                \cup {<<"lc1", "lc10">>, <<"lc", "lc1">>, <<"lc", "lc10">>}
KnowsOpen == [f \in Db |-> {"open"}]

\* OST metrics: three OSTs on one OSS, two of them in one database, the legacy
\* metrics, and one that does not parse.
OstMetrics == {M("ost_v2", "oss1", <<"ost1", "ost3", "ost2">>, <<>>),
               M("oss_v1", "oss1", <<>>, <<>>),
               M("ost_v1", "oss1", <<"ost2">>, <<>>),
               M("garbled", "oss1", <<>>, <<>>)}

\* MDT metrics with a known and an unknown operation.
MdtMetrics == {M("mdt", "mds1", <<"mdt1">>, <<"close", "open">>),
               M("router_v1", "rtr1", <<>>, <<>>)}

\* Two MDTs of one file system on one MDS (DNE).
DneMetrics == {M("mdt", "mds1", <<"mdt1", "mdt2">>, <<"open">>)}

=============================================================================
