---------------------------- MODULE OrderedStream ----------------------------
(***************************************************************************)
(* What the reader of a tunnel may rely on, whatever layers, frames and    *)
(* seals are under it: units arrive in the order in which they were sent.  *)
(* Until the stream is damaged, none is missing.  A stream with gaps never *)
(* repeats a unit or makes one up; only a garbled one returns what nobody  *)
(* sent.  What was returned is never taken back.                           *)
(***************************************************************************)
EXTENDS Naturals, Sequences

VARIABLES sent,  \* the number of units sent
          got,   \* the units read, by their numbers
          state  \* "whole", and later perhaps "gaps" or "garbled"

svars == <<sent, got, state>>

SInit == sent = 0 /\ got = <<>> /\ state = "whole"

Send ==
    /\ sent' = sent + 1
    /\ UNCHANGED <<got, state>>

\* The next unit is read, or a later one when there are gaps.
Deliver ==
    /\ \E u \in 1..sent :
          /\ \A i \in DOMAIN got : got[i] < u
          /\ state = "whole" => u = Len(got) + 1
          /\ got' = Append(got, u)
    /\ UNCHANGED <<sent, state>>

\* Something is taken for a unit.
Misread ==
    /\ state = "garbled"
    /\ Len(got') = Len(got) + 1
    /\ \A i \in DOMAIN got : got'[i] = got[i]
    /\ UNCHANGED <<sent, state>>

Damage ==
    /\ state = "whole"
    /\ state' \in {"gaps", "garbled"}
    /\ UNCHANGED <<sent, got>>

SNext == Send \/ Deliver \/ Misread \/ Damage

SSpec == SInit /\ [][SNext]_svars
==============================================================================
