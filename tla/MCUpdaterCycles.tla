--------------------------- MODULE MCUpdaterCycles ---------------------------
(***************************************************************************)
(* Updater with a history of its cycles, for what GetUpdatedSubscriptions  *)
(* is said to return.                                                      *)
(***************************************************************************)
EXTENDS MCUpdater

VARIABLE lastChanged  \* the URLs whose content has changed since the last cycle began

CycleInit == Init /\ lastChanged = {}

HistoryNext ==
    /\ Next
    /\ lastChanged' =
          IF bounds'.ticks # bounds.ticks \/ bounds'.starts # bounds.starts
          THEN {}
          ELSE lastChanged \cup {u \in Urls : states'[u].hash # states[u].hash}

CycleSpec == CycleInit /\ [][HistoryNext]_<<vars, lastChanged>>

\* The comment of GetUpdatedSubscriptions: it returns the subscriptions that were
\* updated in the last cycle, once a cycle has gone through all of them.
UpdatedMeansLastCycle ==
    loop = "save" => \A u \in Urls : states[u].updated => u \in lastChanged
=============================================================================
