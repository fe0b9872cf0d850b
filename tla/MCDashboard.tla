---------------------------- MODULE MCDashboard ----------------------------
(* Dashboard with a clock, which its code does not look at: how old the       *)
(* statistics are that are served from the cache, in minutes.                 *)
EXTENDS Dashboard

CONSTANTS CacheTTL, \* five minutes in NewAPIHandler (api.go:40)
          MaxTime   \* bound on the minutes that pass

VARIABLES
    now,
    storedAt, \* when cache["stats"] was stored
    oldest    \* the greatest age of what was served from the cache

vars == <<dashVars, now, storedAt, oldest>>

Init == DashInit /\ now = 0 /\ storedAt = 0 /\ oldest = 0

Step ==
    /\ DashNext
    /\ storedAt' = IF \E r \in Requests : request[r] = "storing" /\ request'[r] = "served"
                   THEN now ELSE storedAt
    /\ oldest' = IF \E r \in Requests : request[r] = "new" /\ request'[r] = "served"
                    /\ now - storedAt > oldest
                 THEN now - storedAt ELSE oldest
    /\ UNCHANGED now

Minute ==
    /\ now < MaxTime
    /\ now' = now + 1
    /\ UNCHANGED <<dashVars, storedAt, oldest>>

Next == Step \/ Minute
Spec == Init /\ [][Next]_vars

\* The handler has a "cacheTTL: 5 * time.Minute" (api.go:40): statistics that
\* are served from the cache are no older.  GetStats never looks at it (api.go:80).
StatsWithinTTL == oldest <= CacheTTL
=============================================================================
