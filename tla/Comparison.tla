----------------------------- MODULE Comparison -----------------------------
(***************************************************************************)
(* internal/compare: two test reports are compared by their configs;       *)
(* CompareLatest takes the two newest of a directory, CompareAll every     *)
(* pair of neighbours, and GenerateTrendReport adds these up.              *)
(*                                                                         *)
(* A report is the sequence of its results.  Success rates are in percent, *)
(* the sites a config was tested against being one or two here.            *)
(***************************************************************************)
EXTENDS Integers, Sequences, FiniteSets, SequencesExt, Functions

CONSTANTS Links,     \* the configs tested
          MaxReports \* bound on the reports

ASSUME ComparisonAssumption == IsFiniteSet(Links) /\ MaxReports \in Nat

VARIABLES
    saved \* the files config_test_*.json, oldest first

Result(c, s, t) == [config |-> c, totalSuccess |-> s, totalTested |-> t]
Unreadable == [readable |-> FALSE, configResults |-> <<>>]
ReportOf(results) == [readable |-> TRUE, configResults |-> results]

\* What a report says of a config.
Outcomes(c) == {Result(c, 0, 0), Result(c, 0, 1), Result(c, 1, 2), Result(c, 2, 2)}

\* The last result of a config counts (configMap1, configMap2).
ConfigsOf(r) == {r.configResults[i].config : i \in DOMAIN r.configResults}
ResultOf(r, c) == r.configResults[CHOOSE i \in DOMAIN r.configResults :
                      /\ r.configResults[i].config = c
                      /\ \A j \in DOMAIN r.configResults :
                            r.configResults[j].config = c => j <= i]

Rate(result) ==
    (100 * result.totalSuccess) \div (IF result.totalTested > 1 THEN result.totalTested ELSE 1)

\* The results whose configs are, or are not, among these.
With(r, cs) == {i \in DOMAIN r.configResults : r.configResults[i].config \in cs}
ResultsWithout(r, cs) == {r.configResults[i] : i \in DOMAIN r.configResults \ With(r, cs)}

\* Mutant: the reports are swapped.
LostConfigsSwapped(a, b) == ResultsWithout(b, ConfigsOf(a))

NewConfigs(a, b)  == ResultsWithout(b, ConfigsOf(a))
LostConfigs(a, b) == ResultsWithout(a, ConfigsOf(b))

\* ConfigsUnchanged counts results of the first report, and the others follow.
ConfigsUnchanged(a, b) == Cardinality(With(a, ConfigsOf(b)))
ConfigsAdded(a, b)     == Len(b.configResults) - ConfigsUnchanged(a, b)
ConfigsRemoved(a, b)   == Len(a.configResults) - ConfigsUnchanged(a, b)

Change(a, b) ==
    [c \in ConfigsOf(a) \cap ConfigsOf(b) |-> Rate(ResultOf(b, c)) - Rate(ResultOf(a, c))]

CompareReports(a, b) ==
    [new |-> NewConfigs(a, b), lost |-> LostConfigs(a, b),
     unchanged |-> ConfigsUnchanged(a, b),
     added |-> ConfigsAdded(a, b), removed |-> ConfigsRemoved(a, b),
     improved |-> {c \in DOMAIN Change(a, b) : Change(a, b)[c] > 0},
     declined |-> {c \in DOMAIN Change(a, b) : Change(a, b)[c] < 0}]

\* CompareLatest puts the newest first, and compares the first with the second.
CompareLatest == CompareReports(saved[Len(saved)], saved[Len(saved) - 1])

\* CompareAll compares every report with the next, if it can read both; a
\* comparison goes by the number of its first report.
CompareAll ==
    [i \in {i \in 1..(Len(saved) - 1) : saved[i].readable /\ saved[i + 1].readable} |->
        CompareReports(saved[i], saved[i + 1])]

\* GenerateTrendReport.
TotalConfigChange(all) == SumFunction([i \in DOMAIN all |-> all[i].added - all[i].removed])
DataPoints(all, c) == Cardinality({i \in DOMAIN all : c \in all[i].improved \cup all[i].declined})

CompareInit == saved = <<>>

\* A test of configs without duplicates saves its report, or what another
\* program left there is no report.
SaveTest ==
    /\ Len(saved) < MaxReports
    /\ \E cs \in SUBSET Links : \E outcome \in [cs -> UNION {Outcomes(c) : c \in cs}] :
          /\ \A c \in cs : outcome[c].config = c
          /\ saved' = Append(saved, ReportOf([i \in 1..Cardinality(cs) |->
                                outcome[SetToSeq(cs)[i]]]))

SaveOther ==
    /\ Len(saved) < MaxReports
    /\ saved' = Append(saved, Unreadable)

CompareNext == SaveTest \/ SaveOther

CompareSpec == CompareInit /\ [][CompareNext]_saved

(***************************************************************************)
(* Properties.                                                             *)
(***************************************************************************)
\* The numbers of a comparison agree with its lists, and those of a trend with
\* the first and the last report (if all can be read): nothing is counted twice
\* or dropped between neighbours, and a config has no more data points than it
\* has neighbouring reports.  CompareLatest tells the last step of the trend, but
\* backwards: what is new it calls lost, and an improvement a decline
\* (compare.go:304).
TrendAddsUp ==
    LET all == CompareAll
    IN  /\ \A i \in DOMAIN all :
              /\ all[i].added = Cardinality(all[i].new) /\ all[i].removed = Cardinality(all[i].lost)
              /\ all[i].improved \cap all[i].declined = {}
              /\ Cardinality(all[i].improved \cup all[i].declined) <= all[i].unchanged
        /\ saved # <<>> /\ (\A i \in DOMAIN saved : saved[i].readable) =>
              TotalConfigChange(all) = Len(Last(saved).configResults) - Len(saved[1].configResults)
        /\ \A c \in Links : DataPoints(all, c) < Cardinality(
              {i \in DOMAIN saved : c \in ConfigsOf(saved[i])}) \/ DataPoints(all, c) = 0
        /\ Len(saved) > 1 /\ Last(saved).readable /\ saved[Len(saved) - 1].readable =>
              LET step == all[Len(saved) - 1]
              IN  /\ CompareLatest.new = step.lost /\ CompareLatest.lost = step.new
                  /\ CompareLatest.improved = step.declined
                  /\ CompareLatest.declined = step.improved
==============================================================================
