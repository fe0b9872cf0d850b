-------------------------- MODULE CandidateRegister --------------------------
(***************************************************************************)
(* What the collector promises of the candidates it finds, however many    *)
(* workers check them and wherever a run ends: a run is a transaction on   *)
(* the register.  In one run a candidate gains at most one success, and    *)
(* only with enough distance to all the others; the last one that it needs *)
(* promotes it, and then it is final.  Candidates enter the lists, which   *)
(* take effect at once, only with that last success, and are in the lists  *)
(* when the register says that they were promoted.                         *)
(***************************************************************************)
EXTENDS Integers, FiniteSets

CONSTANTS Candidates,
          MinSuccess,   \* the successes that promote a candidate
          MinInterval,  \* the time between two of them
          Expiry        \* the time that a candidate has for them

VARIABLES register, \* the record of each candidate
          lists,    \* the candidates in the lists
          unlisted, \* those that could not be listed
          at,       \* the time
          running   \* whether a run is under way

svars == <<register, lists, unlisted, at, running>>

Unseen == [status |-> "unseen", firstSeen |-> 0, counted |-> {}]

SInit == /\ register = [c \in Candidates |-> Unseen]
         /\ lists \in SUBSET Candidates
         /\ unlisted = {}
         /\ at \in Nat
         /\ running = FALSE

\* The record of a candidate that the run has met.
Met(r, t) == IF r = Unseen THEN [status |-> "open", firstSeen |-> t, counted |-> {}] ELSE r

\* It is neither final nor too old, and its successes are far enough back ...
MayGain(r, t) ==
    /\ Met(r, t).status = "open"
    /\ t - Met(r, t).firstSeen <= Expiry
    /\ \A u \in r.counted : t - u >= MinInterval

\* ... for one more.
OneMore(r, t) ==
    LET times == r.counted \cup {t}
    IN  [status    |-> IF Cardinality(times) >= MinSuccess THEN "promoted" ELSE "open",
         firstSeen |-> Met(r, t).firstSeen,
         counted   |-> times]

Expired(r, s, t) == /\ r.status = "open" /\ t - r.firstSeen > Expiry
                    /\ s = [r EXCEPT !.status = "expired"]

Forgotten(r, s, t) == /\ r.status \in {"open", "expired"} /\ t - r.firstSeen > 3 * Expiry
                      /\ s = Unseen

\* What a run may make of a record.
Treated(r, s, t) == \/ s = r
                    \/ s = Met(r, t)
                    \/ MayGain(r, t) /\ s = OneMore(r, t)
                    \/ Expired(r, s, t)
                    \/ Forgotten(r, s, t)

-----------------------------------------------------------------------------
Pass == /\ ~running
        /\ at' > at
        /\ UNCHANGED <<register, lists, unlisted, running>>

Begin == /\ ~running /\ running' = TRUE
         /\ UNCHANGED <<register, lists, unlisted, at>>

\* A candidate whose last success is there is listed, or it cannot be.
List(c) == /\ running
           /\ MayGain(register[c], at) /\ OneMore(register[c], at).status = "promoted"
           /\ \/ lists' = lists \cup {c} /\ UNCHANGED unlisted
              \/ unlisted' = unlisted \cup {c} /\ UNCHANGED lists
           /\ UNCHANGED <<register, at, running>>

Commit == /\ running /\ running' = FALSE
          /\ \A c \in Candidates :
                /\ Treated(register[c], register'[c], at)
                /\ register'[c].status = "promoted" => c \in lists \cup unlisted
          /\ UNCHANGED <<lists, unlisted, at>>

Abort == /\ running /\ running' = FALSE
         /\ UNCHANGED <<register, lists, unlisted, at>>

SNext == Pass \/ Begin \/ Commit \/ Abort \/ \E c \in Candidates : List(c)

SSpec == SInit /\ [][SNext]_svars
==============================================================================
