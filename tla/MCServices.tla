----------------------------- MODULE MCServices -----------------------------
(* Components that do not know of each other, checked in one run: a behavior  *)
(* is about one of them.  Two sites have the same name, as two of             *)
(* DefaultTargetSites do (target_sites.go:13, 65).                            *)
EXTENDS Cache, RotatingLog, Dashboard, Comparison, TestReports

MCSites == <<"Google", "Google">>

VARIABLE subject

vars == <<subject, cacheVars, logVars, dashVars, saved, repoVars>>

Init ==
    /\ subject \in {"cache", "log", "dashboard", "comparison", "tester"}
    /\ CacheInit /\ LogInit /\ DashInit /\ CompareInit
    /\ ReportsInit
    /\ subject # "tester" => driver = "configs"

Tester(step) == subject = "tester" /\ step
                /\ UNCHANGED <<subject, cacheVars, logVars, dashVars, saved>>

Next ==
    \/ subject = "cache" /\ CacheNext /\ UNCHANGED <<subject, logVars, dashVars, saved, repoVars>>
    \/ subject = "log" /\ LogNext /\ UNCHANGED <<subject, cacheVars, dashVars, saved, repoVars>>
    \/ subject = "dashboard" /\ DashNext /\ UNCHANGED <<subject, cacheVars, logVars, saved, repoVars>>
    \/ subject = "comparison" /\ CompareNext /\ UNCHANGED <<subject, cacheVars, logVars, dashVars, repoVars>>
    \/ Tester(ReportsNext)

\* Only StopEnds needs fairness, that of the tester.
Spec == Init /\ [][Next]_vars /\ WF_vars(Tester(Goroutine))
==============================================================================
