------------------------------ MODULE DayArchive ------------------------------
(***************************************************************************)
(* What the collector promises of its archive of days, however its runs    *)
(* end: a day is collected while it is today and archived once it is over, *)
(* with all that was seen on it and before another day is collected.  From *)
(* then on its archive is final, until the retention lets it go.           *)
(***************************************************************************)
EXTENDS Integers

CONSTANTS Days,  \* the days, as numbers
          Kept   \* the number of days, with today, whose archives are kept

VARIABLES seen,    \* what was seen on each day
          archive, \* of each day a set with its archive, empty if there is none
          day,     \* the last day that was collected
          today

svars == <<seen, archive, day, today>>

SInit == /\ seen = [d \in Days |-> {}]
         /\ archive = [d \in Days |-> {}]
         /\ day = -1
         /\ today = 0

Over        == day \in Days /\ day < today
Retained(d) == d > today - Kept

-----------------------------------------------------------------------------
Pass == /\ today' > today
        /\ UNCHANGED <<seen, archive, day>>

\* Today is collected, again or for the first time.  A day before it is archived by
\* then, or was too old to be.
Collect == /\ Over => archive[day] = {seen[day]} \/ ~Retained(day)
           /\ day' = today
           /\ seen[today] \subseteq seen'[today]
           /\ \A d \in Days \ {today} : seen'[d] = seen[d]
           /\ UNCHANGED <<archive, today>>

\* The day that is over is archived; or its archive, which may be there from a run
\* that did not get to collect, is taken away to be made again.
Fill == /\ Over
        /\ archive' = [archive EXCEPT ![day] = {seen[day]}]
        /\ UNCHANGED <<seen, day, today>>

Remove == /\ Over
          /\ archive' = [archive EXCEPT ![day] = {}]
          /\ UNCHANGED <<seen, day, today>>

Prune(d) == /\ ~Retained(d)
            /\ archive' = [archive EXCEPT ![d] = {}]
            /\ UNCHANGED <<seen, day, today>>

SNext == Pass \/ Collect \/ Fill \/ Remove \/ \E d \in Days : Prune(d)

SSpec == SInit /\ [][SNext]_svars
==============================================================================
