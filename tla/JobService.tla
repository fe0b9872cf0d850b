----------------------------- MODULE JobService -----------------------------
(***************************************************************************)
(* What a pool of goroutines promises to the code that hands it jobs,      *)
(* whatever its queue and its workers look like: a job is begun at most    *)
(* once, a shutdown ends only when every job that was begun has returned,  *)
(* and nothing begins after it.  A job that was accepted may never begin.  *)
(* Jobs are named by the order in which they were accepted.                *)
(***************************************************************************)
EXTENDS Naturals

VARIABLES accepted,   \* jobs handed over
          begun,      \* jobs whose function was called
          finished,   \* jobs whose function returned
          phase       \* "open", then "closing", then "closed"

svars == <<accepted, begun, finished, phase>>

SInit == /\ accepted = {}
         /\ begun = {}
         /\ finished = {}
         /\ phase = "open"

\* A job is accepted, possibly while the service is already closing.
Accept == /\ phase # "closed"
          /\ accepted' \subseteq Nat
          /\ \E j \in accepted' \ accepted : accepted' = accepted \cup {j}
          /\ UNCHANGED <<begun, finished, phase>>

\* Some accepted job begins, jobs beginning in the order of acceptance.
Begin == /\ phase # "closed"
         /\ \E j \in accepted \ begun :
               /\ \A i \in accepted \ begun : j <= i
               /\ begun' = begun \cup {j}
         /\ UNCHANGED <<accepted, finished, phase>>

Finish == /\ \E j \in begun \ finished : finished' = finished \cup {j}
          /\ UNCHANGED <<accepted, begun, phase>>

BeginClosing == /\ phase = "open"
                /\ phase' = "closing"
                /\ UNCHANGED <<accepted, begun, finished>>

\* The shutdown completes: nothing that was begun is still running.
EndClosing == /\ phase = "closing"
              /\ begun = finished
              /\ phase' = "closed"
              /\ UNCHANGED <<accepted, begun, finished>>

SNext == Accept \/ Begin \/ Finish \/ BeginClosing \/ EndClosing

SSpec == SInit /\ [][SNext]_svars
=============================================================================
