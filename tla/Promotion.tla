------------------------------ MODULE Promotion ------------------------------
(***************************************************************************)
(* internal/app/collect.go, from the loading of the candidates to their    *)
(* saving: the runs of one collector process after another, any of which   *)
(* may crash, that check the candidates with a pool of workers, list the   *)
(* promoted ones in channels.csv or sources.json, and save the candidates. *)
(*                                                                         *)
(* The pool appears by what WorkerPool guarantees: Wait returns when every *)
(* job has left the queue and a worker was free for the sentinel, with     *)
(* jobs still running on the other workers; Stop returns when none is.     *)
(* Two workers in Result at the same time write one Go map; the runtime    *)
(* either stops the process, which is a Crash, or nothing happens, since   *)
(* they write different existing keys.                                     *)
(*                                                                         *)
(* A cancelled context and the errors of the other phases of Collect end   *)
(* the run with nothing saved, as a Crash does.                            *)
(***************************************************************************)
EXTENDS CandidateStore

CONSTANTS Channels,   \* candidates of kind channel
          Sources,    \* candidates of kind source
          Workers,    \* workers of the pool of each kind (5 and 10 in the code)
          Outcomes,   \* the outcomes of a fetch that are explored
          MaxClock    \* bound on the time

ASSUME PromotionAssumption ==
    /\ Channels \cap Sources = {}
    /\ IsFiniteSet(Channels \cup Sources)
    /\ Workers \in [{"channel", "source"} -> Nat \ {0}]
    /\ Outcomes \subseteq CheckOutcomes
    /\ MaxClock \in Nat

Cands == Channels \cup Sources
KindOf(c) == IF c \in Channels THEN "channel" ELSE "source"

VARIABLES
    clock,   \* the time, which runs between runs
    disk,    \* candidates.json
    listed,  \* the names in channels.csv and the URLs in sources.json
    \* the process
    phase,   \* "down", "select", "wait", "stopping", "save" or "failing"
    kind,    \* the kind whose candidates are being validated
    now,     \* the time the run started, which it uses throughout
    mem,     \* the candidate map
    known,   \* knownChannels and knownSources
    job,     \* the job of each candidate
    err,     \* the kinds whose candidateErr, or sourceErr, is set
    \* history
    read,    \* the kinds whose error variable this run has read
    missed   \* candidates whose listing failed after that

vars == <<clock, disk, listed, phase, kind, now, mem, known, job, err, read, missed>>
process == <<kind, now, mem, known, job, err, read>>

Init == /\ clock = 1
        /\ disk = [c \in Cands |-> Absent]
        /\ listed \in SUBSET Cands
        /\ phase = "down"
        /\ kind = "channel"
        /\ now = 0
        /\ mem = [c \in Cands |-> Absent]
        /\ known = {}
        /\ job = [c \in Cands |-> "none"]
        /\ err = {}
        /\ read = {}
        /\ missed = {}

\* The process is gone and its memory with it.
Gone == /\ phase' = "down"
        /\ kind' = "channel"
        /\ now' = 0
        /\ mem' = [c \in Cands |-> Absent]
        /\ known' = {}
        /\ job' = [c \in Cands |-> "none"]
        /\ err' = {}
        /\ read' = {}

Running(k) == {c \in Cands : KindOf(c) = k /\ job[c] \in {"checking", "adding"}}

-----------------------------------------------------------------------------
Tick == /\ phase = "down"
        /\ clock < MaxClock
        /\ clock' = clock + 1
        /\ UNCHANGED <<disk, listed, phase, process, missed>>

\* Collect loads the files and observes what the fetched pages mention; the
\* sources that GitHub discovery adds for this run count as known.
Begin == /\ phase = "down"
         /\ phase' = "select"
         /\ now' = clock
         /\ \E seen \in SUBSET Cands :
               mem' = [c \in Cands |-> IF c \in seen THEN Observed(disk[c], clock)
                                                     ELSE disk[c]]
         /\ \E forks \in SUBSET Sources : known' = listed \cup forks
         /\ UNCHANGED <<clock, disk, listed, kind, job, err, read, missed>>

\* EligibleAll of the current kind, and a job submitted for each candidate.
Select == /\ phase = "select"
          /\ phase' = "wait"
          /\ mem' = [c \in Cands |-> IF KindOf(c) = kind THEN AfterEligible(mem[c], now)
                                                         ELSE mem[c]]
          /\ job' = [c \in Cands |->
                        IF KindOf(c) = kind /\ Eligible(mem[c], now) THEN "queued" ELSE job[c]]
          /\ UNCHANGED <<clock, disk, listed, kind, now, known, err, read, missed>>

\* A worker takes a job, which returns at once for a candidate that is known.
Take(c) == /\ job[c] = "queued"
           /\ Cardinality(Running(KindOf(c))) < Workers[KindOf(c)]
           /\ job' = [job EXCEPT ![c] = IF c \in known THEN "done" ELSE "checking"]
           /\ UNCHANGED <<clock, disk, listed, phase, kind, now, mem, known, err, read, missed>>

\* The fetch ends and Result records it; a promoted candidate is to be listed.
Check(c) == /\ job[c] = "checking"
            /\ \E outcome \in Outcomes :
                  /\ mem' = [mem EXCEPT ![c] = Checked(@, outcome, now)]
                  /\ job' = [job EXCEPT ![c] =
                                IF Checked(mem[c], outcome, now).status = "promoted"
                                THEN "adding" ELSE "done"]
            /\ UNCHANGED <<clock, disk, listed, phase, kind, now, known, err, read, missed>>

\* AddChannel or AddSource under the mutex: the file is replaced by a rename, or
\* an error is stored, which the run reads only once.
Add(c) ==
    /\ job[c] = "adding"
    /\ job' = [job EXCEPT ![c] = "done"]
    /\ known' = known \cup {c}
    /\ \/ /\ listed' = listed \cup {c}
          /\ UNCHANGED <<err, missed>>
       \/ /\ err' = err \cup {KindOf(c)}
          /\ missed' = IF KindOf(c) \in read THEN missed \cup {c} ELSE missed
          /\ UNCHANGED listed
    /\ UNCHANGED <<clock, disk, phase, kind, now, mem, read>>

\* Wait returns, the error variable is read, and the run goes on to the sources or
\* prunes the expired candidates; or it fails.
WaitReturns ==
    /\ phase = "wait"
    /\ \A c \in Cands : KindOf(c) = kind => job[c] # "queued"
    /\ Cardinality(Running(kind)) < Workers[kind]
    /\ read' = read \cup {kind}
    /\ \/ /\ kind \in err
          /\ phase' = "failing"
          /\ UNCHANGED <<kind, mem>>
       \/ /\ kind \notin err
          /\ kind = "channel"
          /\ kind' = "source"
          /\ phase' = "select"
          /\ UNCHANGED mem
       \/ /\ kind \notin err
          /\ kind = "source"
          /\ mem' = [c \in Cands |-> Pruned(mem[c], now)]
          /\ phase' = "stopping"
          /\ UNCHANGED kind
    /\ UNCHANGED <<clock, disk, listed, now, known, job, err, missed>>

\* Mutant: validateCandidates returns without stopping its pools.
StopNothing == /\ phase = "stopping"
               /\ phase' = "save"
               /\ UNCHANGED <<clock, disk, listed, process, missed>>

\* The deferred Stops: validateCandidates returns when no job is running.
StopPools == /\ phase = "stopping"
             /\ Running("channel") \cup Running("source") = {}
             /\ phase' = "save"
             /\ UNCHANGED <<clock, disk, listed, process, missed>>

\* The deferred Stops on the way out of a failed validation.
FailedRunEnds == /\ phase = "failing"
                 /\ Running("channel") \cup Running("source") = {}
                 /\ Gone
                 /\ UNCHANGED <<clock, disk, listed, missed>>

\* Mutant: Save writes candidates.json in place, so a failure may leave some of
\* the new records and some of the old.
SaveInPlace == /\ phase = "save"
               /\ \E saved \in SUBSET Cands :
                     disk' = [c \in Cands |-> IF c \in saved THEN mem[c] ELSE Absent]
               /\ Gone
               /\ UNCHANGED <<clock, listed, missed>>

\* Save: candidates.json is replaced by a rename, or it is not.
Save == /\ phase = "save"
        /\ disk' \in {disk, mem}
        /\ Gone
        /\ UNCHANGED <<clock, listed, missed>>

Crash == /\ phase # "down"
         /\ Gone
         /\ UNCHANGED <<clock, disk, listed, missed>>

-----------------------------------------------------------------------------
Next == \/ Tick \/ Begin \/ Select \/ WaitReturns \/ StopPools
        \/ FailedRunEnds \/ Save \/ Crash
        \/ \E c \in Cands : Take(c) \/ Check(c) \/ Add(c)

Spec == Init /\ [][Next]_vars

-----------------------------------------------------------------------------
(* Properties.                                                             *)

\* The ranges of the variables.
TypeOK ==
    /\ clock \in Nat
    /\ disk \in [Cands -> Candidate \cup {Absent}]
    /\ listed \subseteq Cands
    /\ phase \in {"down", "select", "wait", "stopping", "save", "failing"}
    /\ kind \in {"channel", "source"}
    /\ now \in Nat
    /\ mem \in [Cands -> Candidate \cup {Absent}]
    /\ known \subseteq Cands
    /\ job \in [Cands -> {"none", "queued", "checking", "adding", "done"}]
    /\ err \subseteq {"channel", "source"}
    /\ read \subseteq {"channel", "source"}
    /\ missed \subseteq Cands

\* A candidate is promoted only after MinSuccess independent successes: across
\* runs, crashes and lost saves, a promoted candidate has that many counted checks,
\* any two at least MinInterval apart.
PromotionIsEarned ==
    \A c \in Cands : /\ disk[c].status = "promoted" => Earned(disk[c])
                     /\ mem[c].status = "promoted" => Earned(mem[c])

\* A candidate saved as promoted is never checked again, so it must already be
\* listed when it is saved: a crash between the two loses the save, not the
\* listing.  The exception is a listing that failed after its error was read.
PromotedIsListed ==
    \A c \in Cands : disk[c].status = "promoted" => c \in listed \cup missed

\* The final statuses are final: on disk a promoted candidate stays promoted, and
\* an expired one stays expired until it is three times Expiry old, when it may be
\* forgotten; a run in which it is mentioned, checked or listed changes nothing.
FinalStatusesStay ==
    [][\A c \in Cands :
          /\ disk[c].status = "promoted" => disk'[c] = disk[c]
          /\ disk[c].status = "expired" =>
                \/ disk'[c] = disk[c]
                \/ disk'[c] = Absent /\ clock - disk[c].firstSeen > 3 * Expiry]_disk

\* What the register has of a record: the statuses that only tell of the last check are
\* one, and the number and the last of the successes are left to their times.
Entry(c) ==
    IF c = Absent THEN [status |-> "unseen", firstSeen |-> 0, counted |-> {}]
    ELSE [status    |-> IF c.status \in {"promoted", "expired"} THEN c.status ELSE "open",
          firstSeen |-> c.firstSeen,
          counted   |-> c.counted]

\* The runs are transactions on the records of the candidates, and the lists have no
\* candidate too early and, once it is recorded as promoted, none too late.
Register == INSTANCE CandidateRegister WITH
                Candidates <- Cands,
                register   <- [c \in Cands |-> Entry(disk[c])],
                lists      <- listed,
                unlisted   <- missed,
                at         <- clock,
                running    <- phase # "down"

ImplementsCandidateRegister == Register!SSpec

-----------------------------------------------------------------------------
(* The inductive invariant.                                                *)

\* Both maps hold only sound records.
RecordsAreSound ==
    \A c \in Cands : /\ disk[c] # Absent => Sound(disk[c])
                     /\ mem[c] # Absent => Sound(mem[c])

\* How far the run is: what is known of its time, its jobs and the errors it has
\* read in each phase.
RunIsOrdered ==
    /\ clock > 0
    /\ phase # "down" => now = clock
    /\ phase = "down" => kind = "channel"
    /\ phase \in {"select", "wait"} /\ kind = "source" => "channel" \in read
    /\ phase \in {"stopping", "save"} => read = {"channel", "source"}
    /\ \A c \in Cands :
          /\ phase = "down" => job[c] = "none"
          /\ kind = "channel" /\ KindOf(c) = "source" => job[c] = "none"
          /\ phase = "select" /\ KindOf(c) = kind => job[c] = "none"
          /\ phase = "save" => job[c] \notin {"checking", "adding"}
          /\ job[c] = "queued" => phase = "wait" /\ KindOf(c) = kind
          /\ job[c] \in {"queued", "checking"} => Considered(mem[c])

\* Where the listing of a promoted candidate is: written, still to be written, or
\* failed with an error that stops the run before it saves.
ListingIsKnown ==
    \A c \in Cands :
        mem[c].status = "promoted" =>
            \/ c \in listed \cup missed
            \/ job[c] = "adding"
            \/ KindOf(c) \in err /\ (KindOf(c) \notin read \/ phase = "failing")

\* A run takes the candidates with a final status over from the disk.
FinalAreKept ==
    phase # "down" =>
        \A c \in Cands :
            /\ disk[c].status = "promoted" => mem[c] = disk[c]
            /\ disk[c].status = "expired" =>
                  \/ mem[c] = disk[c]
                  \/ mem[c] = Absent /\ clock - disk[c].firstSeen > 3 * Expiry

PromotionInv ==
    /\ TypeOK
    /\ RecordsAreSound
    /\ RunIsOrdered
    /\ PromotedIsListed
    /\ ListingIsKnown
    /\ FinalAreKept

-----------------------------------------------------------------------------
(* What implementing CandidateRegister needs beyond that.                  *)

\* The fields by which Result decides tell what the counted times would.
Tells(c) == /\ c.lastSuccess = 0 \/ c.lastSuccess \in c.counted
            /\ c.status # "promoted" => c.successes < MinSuccess

FieldsTell == \A c \in Cands : /\ disk[c] # Absent => Tells(disk[c])
                               /\ mem[c] # Absent => Tells(mem[c])

\* The run has done no more to a candidate than to meet it.
OnlyMet(c) == \/ phase = "select" /\ KindOf(c) = kind
              \/ kind = "channel" /\ KindOf(c) = "source"
              \/ job[c] \in {"queued", "checking"}

\* So far the run has treated each candidate as a transaction may.
RunIsOneStep ==
    phase # "down" =>
        \A c \in Cands :
            /\ Register!Treated(Entry(disk[c]), Entry(mem[c]), clock)
            /\ OnlyMet(c) => mem[c] \in {disk[c], Observed(disk[c], clock)}
            /\ job[c] \in {"queued", "checking"} => ~Overdue(mem[c], clock)
            /\ job[c] = "adding" =>
                  /\ Register!MayGain(Entry(disk[c]), clock)
                  /\ Register!OneMore(Entry(disk[c]), clock).status = "promoted"

RegisterInv == PromotionInv /\ FieldsTell /\ RunIsOneStep

-----------------------------------------------------------------------------
\* "Wait for all channel candidate checks to complete" (collect.go): once the run
\* has looked at the error of a kind, no listing of that kind can fail.
ErrorsAreSeen == missed = {}
=============================================================================
