--------------------------- MODULE CandidateStore ---------------------------
(***************************************************************************)
(* internal/state/candidates.go: what the operations of CandidateStore do  *)
(* to one candidate.  A candidate of the map is a record, or Absent.       *)
(*                                                                         *)
(* Time is a number of units in which settings.Discovery is also given;    *)
(* 0 is Go's zero time.  The fields that only order or decorate candidates *)
(* (LastSeenAt, LastCheckedAt, Origins and the failure counters, which     *)
(* feed score) are left out.  `counted` is a history field: the times of   *)
(* the checks that Successes counts.                                       *)
(***************************************************************************)
EXTENDS Integers, FiniteSets

CONSTANTS MinSuccess,   \* settings.Discovery.PromotionSuccessCount
          MinInterval,  \* settings.Discovery.PromotionMinIntervalHrs
          Expiry        \* settings.Discovery.CandidateExpiryDays

\* LoadCollectorSettings refuses anything below 1.
ASSUME SettingsAssumption ==
    /\ MinSuccess \in Nat \ {0}
    /\ MinInterval \in Nat \ {0}
    /\ Expiry \in Nat \ {0}

Statuses == {"pending", "qualified", "promoted", "no_config", "not_found",
             "unknown_error", "expired"}

\* What candidateStatus can make of a fetch.
CheckOutcomes == {"qualified", "no_config", "not_found", "unknown_error"}

Candidate == [status : Statuses, firstSeen : Nat, lastSuccess : Nat,
              successes : Nat, counted : SUBSET Nat]

\* A value that is no record: the id is not in the map.
Absent == [status |-> "absent"]

\* Observe: an unknown value becomes pending, a known one keeps its record.
Observed(c, now) ==
    IF c # Absent THEN c
    ELSE [status |-> "pending", firstSeen |-> now, lastSuccess |-> 0,
          successes |-> 0, counted |-> {}]

\* The candidates EligibleAll looks at, and those of them it marks as expired.
Considered(c) == c # Absent /\ c.status \notin {"promoted", "expired"}
Overdue(c, now) == now - c.firstSeen > Expiry

\* EligibleAll returns the candidate.
Eligible(c, now) == Considered(c) /\ ~Overdue(c, now)

\* What EligibleAll leaves in the map.
AfterEligible(c, now) ==
    IF Considered(c) /\ Overdue(c, now) THEN [c EXCEPT !.status = "expired"] ELSE c

\* Mutant: the interval is measured from the last check, counted or not.
CountsAlways(c, now) == c.lastSuccess <= now

\* A successful check counts when none was counted before or the last counted one
\* is at least MinInterval old.
Counts(c, now) == c.lastSuccess = 0 \/ now - c.lastSuccess >= MinInterval

\* Result: record a check.
Checked(c, outcome, now) ==
    LET counts == outcome = "qualified" /\ Counts(c, now)
        wins   == IF counts THEN c.successes + 1 ELSE c.successes
    IN  [c EXCEPT
           !.status = IF outcome = "qualified" /\ wins >= MinSuccess
                      THEN "promoted" ELSE outcome,
           !.successes = wins,
           !.lastSuccess = IF counts THEN now ELSE @,
           !.counted = IF counts THEN @ \cup {now} ELSE @]

\* Prune, as validateCandidates calls it, with before = now - 2 * Expiry.
Pruned(c, now) ==
    IF c # Absent /\ c.status = "expired" /\ (now - 2 * Expiry) - c.firstSeen > Expiry
    THEN Absent ELSE c

-----------------------------------------------------------------------------
\* A candidate has earned its promotion: at least MinSuccess successful checks
\* were counted, any two of them at least MinInterval apart.
Earned(c) ==
    /\ Cardinality(c.counted) >= MinSuccess
    /\ \A t, u \in c.counted : t < u => u - t >= MinInterval

\* What makes promoted records earned: the fields of a record agree with the times
\* that were counted, the last of which is lastSuccess.
Sound(c) ==
    /\ IsFiniteSet(c.counted)
    /\ c.successes = Cardinality(c.counted)
    /\ \A t \in c.counted : 0 < t /\ t <= c.lastSuccess
    /\ \A t, u \in c.counted : t < u => u - t >= MinInterval
    /\ c.status = "promoted" => c.successes >= MinSuccess
=============================================================================
