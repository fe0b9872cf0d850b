------------------------------ MODULE RecordBook ------------------------------
(***************************************************************************)
(* What the commands that check channels and sources promise of the        *)
(* records they keep, however many requests a scan sends and wherever it   *)
(* ends: a scan is a transaction.  It begins at a time of its own, and     *)
(* either all of what it found is in the book, once, or nothing; and each  *)
(* record lives from one check to the next until its target is dormant.    *)
(***************************************************************************)
EXTENDS Integers

CONSTANTS Targets,      \* what has a record
          DormantAfter  \* the time without a success after which a target is dormant

VARIABLES book,    \* the record of each target
          at,      \* the time of the last scan that began
          running  \* whether it is under way

svars == <<book, at, running>>

NoRecord == [status |-> "none", checked |-> 0, success |-> 0, failures |-> 0]

SInit == book = [t \in Targets |-> NoRecord] /\ at = 0 /\ running = FALSE

\* Since when nothing good is known of a target; 0 if nothing is known.
Silent(r) == IF r.success # 0 THEN r.success ELSE r.checked

Due(r, t) == r.status = "dormant" \/ (Silent(r) # 0 /\ Silent(r) < t - DormantAfter)

\* A record before and after a scan.
FallsDormant(r, s, t) ==
    /\ Due(r, t)
    /\ s.status = "dormant" /\ s.checked = t
    /\ s.success = r.success /\ s.failures = r.failures

IsChecked(r, s, t) ==
    /\ ~Due(r, t)
    /\ s.checked = t
    /\ \/ s.status = "active" /\ s.success = t /\ s.failures = 0
       \/ /\ s.status \in {"inactive", "not_found"}
          /\ s.success = r.success /\ s.failures = 0
       \/ /\ s.status = "unknown"
          /\ s.success = r.success /\ s.failures = r.failures + 1

Begin == /\ ~running /\ running' = TRUE
         /\ at' > at
         /\ UNCHANGED book

Commit == /\ running /\ running' = FALSE
          /\ \A t \in Targets : \/ book'[t] = book[t]
                                \/ FallsDormant(book[t], book'[t], at)
                                \/ IsChecked(book[t], book'[t], at)
          /\ UNCHANGED at

Abort == running /\ running' = FALSE /\ UNCHANGED <<book, at>>

SNext == Begin \/ Commit \/ Abort

SSpec == SInit /\ [][SNext]_svars
==============================================================================
