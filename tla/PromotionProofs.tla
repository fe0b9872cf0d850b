--------------------------- MODULE PromotionProofs ---------------------------
(***************************************************************************)
(* What holds of the promotion of candidates for all sets of candidates,   *)
(* settings, sizes of the pools and runs.                                  *)
(***************************************************************************)
EXTENDS Promotion, FiniteSetTheorems, TLAPS

\* Absent is no record of a candidate.
LEMMA AbsentIsNoCandidate ==
    /\ Absent \notin Candidate
    /\ Absent.status = "absent"
    /\ ~Considered(Absent)
  BY DEF Absent, Candidate, Statuses, Considered

\* Result keeps a record sound and well typed.
LEMMA CheckedIsSound ==
    ASSUME NEW c \in Candidate, Sound(c), NEW n \in Nat, n > 0, NEW outcome \in CheckOutcomes
    PROVE  /\ Checked(c, outcome, n) \in Candidate
           /\ Checked(c, outcome, n) # Absent
           /\ Sound(Checked(c, outcome, n))
  <1> DEFINE d == Checked(c, outcome, n)
  <1> USE SettingsAssumption
  <1>1. /\ c.status \in Statuses /\ c.firstSeen \in Nat /\ c.lastSuccess \in Nat
        /\ c.successes \in Nat /\ c.counted \in SUBSET Nat
    BY DEF Candidate
  <1>2. CASE outcome = "qualified" /\ Counts(c, n)
    <2>1. /\ d.status \in {"promoted", "qualified"}
          /\ d.status = "promoted" => d.successes >= MinSuccess
          /\ d.firstSeen = c.firstSeen
          /\ d.lastSuccess = n
          /\ d.successes = c.successes + 1
          /\ d.counted = c.counted \cup {n}
      BY <1>1, <1>2 DEF Checked, Candidate
    <2>2. \A t \in c.counted : t \in Nat /\ 0 < t /\ t < n /\ n - t >= MinInterval
      <3>1. CASE c.lastSuccess = 0
        BY <1>1, <3>1 DEF Sound
      <3>2. CASE n - c.lastSuccess >= MinInterval
        BY <1>1, <3>2 DEF Sound
      <3> QED
        BY <3>1, <3>2, <1>2 DEF Counts
    <2>3. n \notin c.counted
      BY <2>2
    <2>4. IsFiniteSet(d.counted) /\ Cardinality(d.counted) = Cardinality(c.counted) + 1
      <3>1. IsFiniteSet(c.counted)
        BY DEF Sound
      <3>2. /\ IsFiniteSet(c.counted \cup {n})
            /\ Cardinality(c.counted \cup {n}) = Cardinality(c.counted) + 1
        BY <3>1, <2>3, FS_AddElement
      <3> QED
        BY <2>1, <3>2
    <2>5. d.successes = Cardinality(d.counted)
      BY <2>1, <2>4 DEF Sound
    <2>6. \A t \in d.counted : 0 < t /\ t <= d.lastSuccess
      BY <2>1, <2>2
    <2>7. \A t, u \in d.counted : t < u => u - t >= MinInterval
      BY <2>1, <2>2 DEF Sound
    <2>8. d \in Candidate
      <3>1. PICK s \in Statuses :
                d = [c EXCEPT !.status = s, !.successes = c.successes + 1,
                              !.lastSuccess = n, !.counted = c.counted \cup {n}]
        BY <1>2 DEF Checked, Statuses
      <3>2. c.successes + 1 \in Nat /\ c.counted \cup {n} \in SUBSET Nat
        BY <1>1
      <3> HIDE DEF d
      <3> QED
        BY <3>1, <3>2 DEF Candidate
    <2>9. Sound(d)
      BY <2>1, <2>4, <2>5, <2>6, <2>7 DEF Sound
    <2> QED
      BY <2>8, <2>9, AbsentIsNoCandidate
  <1>3. CASE ~(outcome = "qualified" /\ Counts(c, n))
    <2>1. /\ d.status \in CheckOutcomes \cup {"promoted"}
          /\ d.status = "promoted" => d.successes >= MinSuccess
          /\ d.lastSuccess = c.lastSuccess
          /\ d.successes = c.successes
          /\ d.counted = c.counted
      BY <1>1, <1>3 DEF Checked, Candidate, CheckOutcomes
    <2>2. d \in Candidate
      BY <1>1, <1>3 DEF Checked, Candidate, Statuses, CheckOutcomes
    <2>3. Sound(d)
      BY <2>1 DEF Sound
    <2> QED
      BY <2>2, <2>3, AbsentIsNoCandidate
  <1> QED
    BY <1>2, <1>3

\* A sound record that is promoted was earned.
LEMMA SoundIsEarned ==
    ASSUME NEW c, Sound(c), c.status = "promoted"
    PROVE  Earned(c)
  BY DEF Sound, Earned

\* Observing a candidate keeps a known record and makes a sound new one.
LEMMA ObservedIsSound ==
    ASSUME NEW c \in Candidate \cup {Absent}, NEW n \in Nat, c # Absent => Sound(c)
    PROVE  /\ Observed(c, n) \in Candidate
           /\ Sound(Observed(c, n))
           /\ c # Absent => Observed(c, n) = c
           /\ c = Absent => Observed(c, n).status = "pending"
  <1>1. CASE c # Absent
    BY <1>1 DEF Observed
  <1>2. CASE c = Absent
    <2>1. Observed(c, n) = [status |-> "pending", firstSeen |-> n, lastSuccess |-> 0,
                            successes |-> 0, counted |-> {}]
      BY <1>2 DEF Observed
    <2>2. Sound(Observed(c, n))
      BY <2>1, FS_EmptySet DEF Sound
    <2> QED
      BY <1>2, <2>1, <2>2 DEF Candidate, Statuses
  <1> QED
    BY <1>1, <1>2

\* EligibleAll only marks records as expired, none of which has a final status.
LEMMA AfterEligibleIsSound ==
    ASSUME NEW c \in Candidate \cup {Absent}, NEW n \in Nat, c # Absent => Sound(c)
    PROVE  /\ AfterEligible(c, n) \in Candidate \cup {Absent}
           /\ AfterEligible(c, n) # Absent => c # Absent /\ Sound(AfterEligible(c, n))
           /\ AfterEligible(c, n).status = "promoted" => AfterEligible(c, n) = c
           /\ c.status \in {"promoted", "expired"} => AfterEligible(c, n) = c
           /\ c = Absent => AfterEligible(c, n) = c
           /\ Eligible(c, n) => AfterEligible(c, n) = c /\ Considered(c)
  <1>1. CASE Considered(c) /\ Overdue(c, n)
    <2> DEFINE d == AfterEligible(c, n)
    <2>1. c \in Candidate /\ c # Absent /\ d = [c EXCEPT !.status = "expired"]
      BY <1>1 DEF AfterEligible, Considered
    <2>2. /\ d \in Candidate
          /\ d.status = "expired"
          /\ d.successes = c.successes
          /\ d.lastSuccess = c.lastSuccess
          /\ d.counted = c.counted
      BY <2>1 DEF Candidate, Statuses
    <2>3. Sound(d)
      BY <2>1, <2>2 DEF Sound
    <2> QED
      BY <1>1, <2>1, <2>2, <2>3 DEF Considered, Eligible
  <1>2. CASE ~(Considered(c) /\ Overdue(c, n))
    BY <1>2 DEF AfterEligible, Eligible
  <1> QED
    BY <1>1, <1>2

\* Prune removes only expired records, and only those three times Expiry old.
LEMMA PrunedKeeps ==
    ASSUME NEW c \in Candidate \cup {Absent}, NEW n \in Nat
    PROVE  \/ Pruned(c, n) = c
           \/ /\ Pruned(c, n) = Absent
              /\ c \in Candidate
              /\ c.status = "expired"
              /\ n - c.firstSeen > 3 * Expiry
  <1>1. CASE c \in Candidate
    <2>1. c.firstSeen \in Nat
      BY <1>1 DEF Candidate
    <2> QED
      BY <1>1, <2>1, SettingsAssumption DEF Pruned
  <1>2. CASE c = Absent
    BY <1>2 DEF Pruned
  <1> QED
    BY <1>1, <1>2

-----------------------------------------------------------------------------
\* The invariant holds initially.
LEMMA PromotionInit == Init => PromotionInv
  <1> SUFFICES ASSUME Init PROVE PromotionInv
    OBVIOUS
  <1>1. \A c \in Cands : disk[c] = Absent /\ mem[c] = Absent /\ job[c] = "none"
    BY DEF Init
  <1>2. TypeOK
    BY DEF Init, TypeOK
  <1>3. RecordsAreSound
    BY <1>1 DEF RecordsAreSound
  <1>4. RunIsOrdered
    BY <1>1 DEF Init, RunIsOrdered
  <1>5. PromotedIsListed /\ ListingIsKnown
    BY <1>1, AbsentIsNoCandidate DEF PromotedIsListed, ListingIsKnown
  <1>6. FinalAreKept
    BY DEF Init, FinalAreKept
  <1> QED
    BY <1>2, <1>3, <1>4, <1>5, <1>6 DEF PromotionInv

\* The process goes away: what is on disk must be sound and listed.
LEMMA GoneInv ==
    ASSUME PromotionInv, Gone, UNCHANGED <<clock, listed, missed>>,
           disk' \in [Cands -> Candidate \cup {Absent}],
           \A c \in Cands : disk'[c] # Absent => Sound(disk'[c]),
           \A c \in Cands : disk'[c].status = "promoted" => c \in listed \cup missed
    PROVE  PromotionInv'
  <1> USE DEF PromotionInv
  <1>1. \A c \in Cands : mem'[c] = Absent /\ job'[c] = "none"
    BY DEF Gone
  <1>2. TypeOK'
    BY DEF TypeOK, Gone
  <1>3. RecordsAreSound'
    BY <1>1 DEF RecordsAreSound
  <1>4. RunIsOrdered'
    BY <1>1 DEF RunIsOrdered, Gone
  <1>5. PromotedIsListed'
    BY DEF PromotedIsListed
  <1>6. ListingIsKnown'
    BY <1>1, AbsentIsNoCandidate DEF ListingIsKnown
  <1>7. FinalAreKept'
    BY DEF FinalAreKept, Gone
  <1> QED
    BY <1>2, <1>3, <1>4, <1>5, <1>6, <1>7

\* A crash, or the end of a failed run, changes nothing on disk.
LEMMA DownInv ==
    ASSUME PromotionInv, Crash \/ FailedRunEnds
    PROVE  PromotionInv'
  <1>1. Gone /\ UNCHANGED <<clock, disk, listed, missed>>
    BY DEF Crash, FailedRunEnds
  <1> QED
    BY <1>1, GoneInv DEF PromotionInv, TypeOK, RecordsAreSound, PromotedIsListed

\* Save: no job can be about to list a candidate, and both errors were read.
LEMMA SaveInv ==
    ASSUME PromotionInv, Save
    PROVE  PromotionInv'
  <1> USE DEF PromotionInv
  <1>1. disk' \in {disk, mem} /\ Gone /\ UNCHANGED <<clock, listed, missed>> /\ phase = "save"
    BY DEF Save
  <1>2. ASSUME NEW c \in Cands, mem[c].status = "promoted"
        PROVE  c \in listed \cup missed
    <2>1. job[c] # "adding" /\ KindOf(c) \in read /\ phase # "failing"
      BY <1>1 DEF RunIsOrdered, KindOf
    <2> QED
      BY <1>2, <2>1 DEF ListingIsKnown
  <1>3. /\ disk' \in [Cands -> Candidate \cup {Absent}]
        /\ \A c \in Cands : disk'[c] # Absent => Sound(disk'[c])
        /\ \A c \in Cands : disk'[c].status = "promoted" => c \in listed \cup missed
    BY <1>1, <1>2 DEF TypeOK, RecordsAreSound, PromotedIsListed
  <1> QED
    BY <1>1, <1>3, GoneInv

\* Time passes between runs.
LEMMA TickInv ==
    ASSUME PromotionInv, Tick
    PROVE  PromotionInv'
  <1> USE DEF PromotionInv
  <1>1. /\ phase = "down" /\ phase' = "down" /\ clock' = clock + 1
        /\ UNCHANGED <<disk, listed, kind, now, mem, known, job, err, read, missed>>
    BY DEF Tick, process
  <1>2. TypeOK'
    BY <1>1 DEF TypeOK
  <1>3. RunIsOrdered'
    BY <1>1, <1>2 DEF RunIsOrdered, TypeOK, KindOf, Considered
  <1>4. RecordsAreSound' /\ PromotedIsListed' /\ ListingIsKnown' /\ FinalAreKept'
    BY <1>1 DEF RecordsAreSound, PromotedIsListed, ListingIsKnown, FinalAreKept, KindOf
  <1> QED
    BY <1>2, <1>3, <1>4

\* A run starts from what is on disk, where every promoted candidate is listed.
LEMMA BeginInv ==
    ASSUME PromotionInv, Begin
    PROVE  PromotionInv'
  <1> USE DEF PromotionInv
  <1>1. /\ phase = "down" /\ phase' = "select" /\ now' = clock
        /\ UNCHANGED <<clock, disk, listed, kind, job, err, read, missed>>
        /\ known' \subseteq Cands
    BY DEF Begin, TypeOK, Cands
  <1>2. PICK seen \in SUBSET Cands :
            mem' = [c \in Cands |-> IF c \in seen THEN Observed(disk[c], clock) ELSE disk[c]]
    BY DEF Begin
  <1>3. ASSUME NEW c \in Cands
        PROVE  /\ mem'[c] \in Candidate \cup {Absent}
               /\ mem'[c] # Absent => Sound(mem'[c])
               /\ disk[c] # Absent => mem'[c] = disk[c]
               /\ disk[c] = Absent => mem'[c].status # "promoted"
    <2>1. disk[c] \in Candidate \cup {Absent} /\ clock \in Nat /\ (disk[c] # Absent => Sound(disk[c]))
      BY DEF TypeOK, RecordsAreSound
    <2>2. mem'[c] = Observed(disk[c], clock) \/ mem'[c] = disk[c]
      BY <1>2
    <2> QED
      BY <2>1, <2>2, ObservedIsSound, AbsentIsNoCandidate
  <1>4. TypeOK'
    <2>1. mem' \in [Cands -> Candidate \cup {Absent}]
      BY <1>2, <1>3
    <2> QED
      BY <1>1, <2>1 DEF TypeOK
  <1>5. RecordsAreSound'
    BY <1>1, <1>3 DEF RecordsAreSound
  <1>6. RunIsOrdered'
    BY <1>1 DEF RunIsOrdered
  <1>7. PromotedIsListed'
    BY <1>1 DEF PromotedIsListed
  <1>8. ListingIsKnown'
    BY <1>1, <1>3 DEF ListingIsKnown, PromotedIsListed
  <1>9. FinalAreKept'
    BY <1>1, <1>3, AbsentIsNoCandidate DEF FinalAreKept
  <1> QED
    BY <1>4, <1>5, <1>6, <1>7, <1>8, <1>9

\* A job is submitted for the candidates that EligibleAll leaves as they were.
LEMMA SelectInv ==
    ASSUME PromotionInv, Select
    PROVE  PromotionInv'
  <1> USE DEF PromotionInv
  <1>1. /\ phase = "select" /\ phase' = "wait"
        /\ UNCHANGED <<clock, disk, listed, kind, now, known, err, read, missed>>
        /\ mem' = [c \in Cands |-> IF KindOf(c) = kind THEN AfterEligible(mem[c], now)
                                                       ELSE mem[c]]
        /\ job' = [c \in Cands |->
                      IF KindOf(c) = kind /\ Eligible(mem[c], now) THEN "queued" ELSE job[c]]
    BY DEF Select
  <1>2. ASSUME NEW c \in Cands
        PROVE  /\ mem'[c] \in Candidate \cup {Absent}
               /\ mem'[c] # Absent => Sound(mem'[c])
               /\ mem'[c].status = "promoted" => mem'[c] = mem[c]
               /\ mem[c].status \in {"promoted", "expired"} \/ mem[c] = Absent => mem'[c] = mem[c]
               /\ job'[c] \in {"queued", job[c]}
               /\ KindOf(c) # kind => job'[c] = job[c] /\ mem'[c] = mem[c]
               /\ job'[c] = "queued" => KindOf(c) = kind /\ Considered(mem'[c])
    <2>1. /\ mem[c] \in Candidate \cup {Absent} /\ now \in Nat
          /\ mem[c] # Absent => Sound(mem[c])
      BY DEF TypeOK, RecordsAreSound
    <2>2. CASE KindOf(c) = kind
      <3>1. mem'[c] = AfterEligible(mem[c], now) /\ job[c] = "none"
        BY <1>1, <2>2 DEF RunIsOrdered
      <3>2. /\ job'[c] \in {"queued", job[c]}
            /\ job'[c] = "queued" => Eligible(mem[c], now)
        BY <1>1, <3>1
      <3> QED
        BY <2>1, <2>2, <3>1, <3>2, AfterEligibleIsSound
    <2>3. CASE KindOf(c) # kind
      <3>1. mem'[c] = mem[c] /\ job'[c] = job[c]
        BY <1>1, <2>3
      <3>2. job[c] # "queued"
        BY <1>1 DEF RunIsOrdered
      <3> QED
        BY <2>1, <2>3, <3>1, <3>2
    <2> QED
      BY <2>2, <2>3
  <1>3. TypeOK'
    <2>1. mem' \in [Cands -> Candidate \cup {Absent}]
      BY <1>1, <1>2
    <2>2. job' \in [Cands -> {"none", "queued", "checking", "adding", "done"}]
      BY <1>1, <1>2 DEF TypeOK
    <2> QED
      BY <1>1, <2>1, <2>2 DEF TypeOK
  <1>4. RecordsAreSound'
    BY <1>1, <1>2 DEF RecordsAreSound
  <1>5. RunIsOrdered'
    <2>1. ASSUME NEW c \in Cands
          PROVE  /\ kind = "channel" /\ KindOf(c) = "source" => job'[c] = "none"
                 /\ job'[c] \in {"queued", "checking"} => Considered(mem'[c])
      <3>1. KindOf(c) = kind => job[c] = "none"
        BY <1>1 DEF RunIsOrdered
      <3> QED
        BY <1>1, <1>2, <3>1 DEF RunIsOrdered
    <2> QED
      BY <1>1, <1>2, <2>1 DEF RunIsOrdered, KindOf
  <1>6. PromotedIsListed'
    BY <1>1 DEF PromotedIsListed
  <1>7. ListingIsKnown'
    <2>1. ASSUME NEW c \in Cands, mem'[c].status = "promoted"
          PROVE  /\ mem[c].status = "promoted"
                 /\ job[c] = "adding" => job'[c] = "adding"
      <3>1. mem'[c] = mem[c]
        BY <1>2, <2>1
      <3>2. KindOf(c) = kind => job[c] = "none"
        BY <1>1 DEF RunIsOrdered
      <3> QED
        BY <1>2, <2>1, <3>1, <3>2
    <2> QED
      BY <1>1, <2>1 DEF ListingIsKnown, KindOf
  <1>8. FinalAreKept'
    BY <1>1, <1>2, AbsentIsNoCandidate DEF FinalAreKept
  <1> QED
    BY <1>3, <1>4, <1>5, <1>6, <1>7, <1>8

\* A worker takes a job: one that is not checked is done.
LEMMA TakeInv ==
    ASSUME PromotionInv, NEW c \in Cands, Take(c)
    PROVE  PromotionInv'
  <1> USE DEF PromotionInv
  <1>1. /\ job[c] = "queued"
        /\ \E s \in {"checking", "done"} : job' = [job EXCEPT ![c] = s]
        /\ UNCHANGED <<clock, disk, listed, phase, kind, now, mem, known, err, read, missed>>
    BY DEF Take
  <1>2. TypeOK'
    BY <1>1 DEF TypeOK
  <1>3. RecordsAreSound' /\ PromotedIsListed' /\ FinalAreKept'
    BY <1>1 DEF RecordsAreSound, PromotedIsListed, FinalAreKept
  <1>4. RunIsOrdered'
    <2>1. phase = "wait" /\ KindOf(c) = kind /\ Considered(mem[c])
      BY <1>1 DEF RunIsOrdered
    <2>2. /\ job'[c] \in {"checking", "done"}
          /\ \A d \in Cands : d # c => job'[d] = job[d]
      BY <1>1 DEF TypeOK
    <2> QED
      BY <1>1, <2>1, <2>2 DEF RunIsOrdered, KindOf
  <1>5. ListingIsKnown'
    <2>1. \A d \in Cands : job[d] = "adding" => job'[d] = "adding"
      BY <1>1 DEF TypeOK
    <2> QED
      BY <1>1, <2>1 DEF ListingIsKnown, KindOf
  <1> QED
    BY <1>2, <1>3, <1>4, <1>5

\* A check ends: its candidate had no final status, and one that is promoted now is
\* about to be listed.
LEMMA CheckInv ==
    ASSUME PromotionInv, NEW c \in Cands, Check(c)
    PROVE  PromotionInv'
  <1> USE DEF PromotionInv
  <1>1. /\ job[c] = "checking"
        /\ UNCHANGED <<clock, disk, listed, phase, kind, now, known, err, read, missed>>
    BY DEF Check
  <1>2. PICK outcome \in Outcomes :
            /\ mem' = [mem EXCEPT ![c] = Checked(mem[c], outcome, now)]
            /\ job' = [job EXCEPT ![c] =
                          IF Checked(mem[c], outcome, now).status = "promoted"
                          THEN "adding" ELSE "done"]
    BY DEF Check
  <1>3. Considered(mem[c]) /\ mem[c] \in Candidate /\ Sound(mem[c]) /\ now \in Nat /\ now > 0
    <2>1. Considered(mem[c]) /\ phase # "down" /\ now = clock /\ clock > 0
      BY <1>1 DEF RunIsOrdered
    <2> QED
      BY <2>1 DEF TypeOK, RecordsAreSound, Considered
  <1>4. outcome \in CheckOutcomes
    BY PromotionAssumption
  <1>5. /\ mem'[c] \in Candidate /\ mem'[c] # Absent /\ Sound(mem'[c])
        /\ mem'[c].status = "promoted" => job'[c] = "adding"
        /\ job'[c] \in {"adding", "done"}
        /\ \A d \in Cands : d # c => mem'[d] = mem[d] /\ job'[d] = job[d]
    <2>1. mem'[c] = Checked(mem[c], outcome, now)
      BY <1>2 DEF TypeOK
    <2> QED
      BY <1>2, <1>3, <1>4, <2>1, CheckedIsSound DEF TypeOK
  <1>6. TypeOK'
    <2>1. mem' \in [Cands -> Candidate \cup {Absent}]
      BY <1>2, <1>5 DEF TypeOK
    <2>2. job' \in [Cands -> {"none", "queued", "checking", "adding", "done"}]
      BY <1>2 DEF TypeOK
    <2> QED
      BY <1>1, <2>1, <2>2 DEF TypeOK
  <1>7. RecordsAreSound'
    BY <1>1, <1>5 DEF RecordsAreSound
  <1>8. RunIsOrdered'
    <2>1. /\ phase \notin {"down", "save"}
          /\ ~(kind = "channel" /\ KindOf(c) = "source")
          /\ ~(phase = "select" /\ KindOf(c) = kind)
      BY <1>1 DEF RunIsOrdered
    <2> QED
      BY <1>1, <1>5, <2>1 DEF RunIsOrdered, KindOf
  <1>9. PromotedIsListed'
    BY <1>1 DEF PromotedIsListed
  <1>10. ListingIsKnown'
    BY <1>1, <1>5 DEF ListingIsKnown, KindOf
  <1>11. FinalAreKept'
    <2>1. phase # "down" /\ mem[c].status \notin {"promoted", "expired"} /\ mem[c] # Absent
      BY <1>1, <1>3 DEF RunIsOrdered, Considered
    <2>2. disk[c].status \notin {"promoted", "expired"}
      BY <2>1 DEF FinalAreKept
    <2> QED
      BY <1>1, <1>5, <2>1, <2>2 DEF FinalAreKept
  <1> QED
    BY <1>6, <1>7, <1>8, <1>9, <1>10, <1>11

\* A promoted candidate is listed, or its failure is noted before or after the run
\* has looked for one.
LEMMA AddInv ==
    ASSUME PromotionInv, NEW c \in Cands, Add(c)
    PROVE  PromotionInv'
  <1> USE DEF PromotionInv
  <1>1. /\ job[c] = "adding"
        /\ job' = [job EXCEPT ![c] = "done"]
        /\ known' = known \cup {c}
        /\ UNCHANGED <<clock, disk, phase, kind, now, mem, read>>
    BY DEF Add
  <1>2. \/ listed' = listed \cup {c} /\ UNCHANGED <<err, missed>>
        \/ /\ err' = err \cup {KindOf(c)}
           /\ missed' = IF KindOf(c) \in read THEN missed \cup {c} ELSE missed
           /\ UNCHANGED listed
    BY DEF Add
  <1>3. /\ KindOf(c) \in {"channel", "source"}
        /\ err \subseteq err' /\ listed \subseteq listed' /\ missed \subseteq missed'
        /\ listed' \subseteq Cands /\ missed' \subseteq Cands /\ err' \subseteq {"channel", "source"}
    <2>1. KindOf(c) \in {"channel", "source"}
      BY DEF KindOf
    <2> QED
      BY <1>2, <2>1 DEF TypeOK
  <1>4. /\ job'[c] = "done"
        /\ \A d \in Cands : d # c => job'[d] = job[d]
    BY <1>1 DEF TypeOK
  <1>5. TypeOK'
    BY <1>1, <1>3 DEF TypeOK
  <1>6. RecordsAreSound' /\ FinalAreKept'
    BY <1>1 DEF RecordsAreSound, FinalAreKept
  <1>7. RunIsOrdered'
    <2>1. /\ phase \notin {"down", "save"}
          /\ ~(kind = "channel" /\ KindOf(c) = "source")
          /\ ~(phase = "select" /\ KindOf(c) = kind)
      BY <1>1 DEF RunIsOrdered
    <2> QED
      BY <1>1, <1>4, <2>1 DEF RunIsOrdered, KindOf
  <1>8. PromotedIsListed'
    BY <1>1, <1>3 DEF PromotedIsListed
  <1>9. ListingIsKnown'
    <2>1. \/ c \in listed' \cup missed'
          \/ KindOf(c) \in err' /\ KindOf(c) \notin read
      BY <1>2
    <2>2. ASSUME NEW d \in Cands, d # c, mem[d].status = "promoted"
          PROVE  \/ d \in listed' \cup missed'
                 \/ job'[d] = "adding"
                 \/ KindOf(d) \in err' /\ (KindOf(d) \notin read \/ phase = "failing")
      BY <1>3, <1>4, <2>2 DEF ListingIsKnown
    <2> QED
      BY <1>1, <2>1, <2>2 DEF ListingIsKnown, KindOf
  <1> QED
    BY <1>5, <1>6, <1>7, <1>8, <1>9

\* Wait returns: an error that was noted stops the run, and the jobs still running
\* are of candidates that Prune keeps.
LEMMA WaitInv ==
    ASSUME PromotionInv, WaitReturns
    PROVE  PromotionInv'
  <1> USE DEF PromotionInv
  <1>1. /\ phase = "wait" /\ phase' \in {"select", "stopping", "failing"}
        /\ \A c \in Cands : KindOf(c) = kind => job[c] # "queued"
        /\ read' = read \cup {kind}
        /\ kind \in err => phase' = "failing" /\ kind' = kind
        /\ kind \notin err /\ kind = "channel" => phase' = "select" /\ kind' = "source"
        /\ kind \notin err /\ kind # "channel" => phase' = "stopping" /\ kind' = kind
        /\ UNCHANGED <<clock, disk, listed, now, known, job, err, missed>>
    BY DEF WaitReturns
  <1>2. kind \in {"channel", "source"} /\ read \subseteq {"channel", "source"} /\ now \in Nat /\ now = clock
    BY <1>1 DEF TypeOK, RunIsOrdered
  <1>3. mem' \in [Cands -> Candidate \cup {Absent}]
        /\ \A c \in Cands : \/ mem'[c] = mem[c]
                            \/ /\ mem'[c] = Absent
                               /\ mem[c] \in Candidate
                               /\ mem[c].status = "expired"
                               /\ now - mem[c].firstSeen > 3 * Expiry
    <2>1. CASE UNCHANGED mem
      BY <2>1 DEF TypeOK
    <2>2. CASE mem' = [c \in Cands |-> Pruned(mem[c], now)]
      <3>1. ASSUME NEW c \in Cands
            PROVE  \/ mem'[c] = mem[c]
                   \/ /\ mem'[c] = Absent
                      /\ mem[c] \in Candidate
                      /\ mem[c].status = "expired"
                      /\ now - mem[c].firstSeen > 3 * Expiry
        <4>1. mem[c] \in Candidate \cup {Absent} /\ mem'[c] = Pruned(mem[c], now)
          BY <2>2 DEF TypeOK
        <4> QED
          BY <1>2, <4>1, PrunedKeeps
      <3>2. \A c \in Cands : mem'[c] \in Candidate \cup {Absent}
        BY <3>1 DEF TypeOK
      <3> QED
        BY <2>2, <3>1, <3>2
    <2> QED
      BY <2>1, <2>2 DEF WaitReturns
  <1>4. TypeOK'
    BY <1>1, <1>2, <1>3 DEF TypeOK
  <1>5. RecordsAreSound'
    BY <1>1, <1>3 DEF RecordsAreSound
  <1>6. RunIsOrdered'
    <2>1. ASSUME NEW c \in Cands
          PROVE  /\ job[c] # "queued"
                 /\ job[c] = "checking" => Considered(mem'[c])
                 /\ KindOf(c) = "source" /\ kind = "channel" => job[c] = "none"
      <3>1. job[c] = "checking" => Considered(mem[c])
        BY DEF RunIsOrdered
      <3>2. job[c] = "checking" => mem'[c] = mem[c]
        BY <1>3, <3>1 DEF Considered
      <3>3. job[c] # "queued"
        BY <1>1 DEF RunIsOrdered
      <3> QED
        BY <3>1, <3>2, <3>3 DEF RunIsOrdered
    <2>2. kind = "source" => "channel" \in read
      BY <1>1 DEF RunIsOrdered
    <2> QED
      BY <1>1, <1>2, <2>1, <2>2 DEF RunIsOrdered, KindOf
  <1>7. PromotedIsListed'
    BY <1>1 DEF PromotedIsListed
  <1>8. ListingIsKnown'
    <2>1. ASSUME NEW c \in Cands, mem'[c].status = "promoted"
          PROVE  \/ c \in listed \cup missed
                 \/ job[c] = "adding"
                 \/ KindOf(c) \in err /\ (KindOf(c) \notin read' \/ phase' = "failing")
      <3>1. mem[c].status = "promoted"
        BY <1>3, <2>1, AbsentIsNoCandidate
      <3> QED
        BY <1>1, <3>1 DEF ListingIsKnown
    <2> QED
      BY <1>1, <2>1 DEF ListingIsKnown, KindOf
  <1>9. FinalAreKept'
    <2>1. ASSUME NEW c \in Cands
          PROVE  /\ disk[c].status = "promoted" => mem'[c] = disk[c]
                 /\ disk[c].status = "expired" =>
                       \/ mem'[c] = disk[c]
                       \/ mem'[c] = Absent /\ clock - disk[c].firstSeen > 3 * Expiry
      BY <1>1, <1>2, <1>3, AbsentIsNoCandidate DEF FinalAreKept
    <2> QED
      BY <1>1, <2>1 DEF FinalAreKept
  <1> QED
    BY <1>4, <1>5, <1>6, <1>7, <1>8, <1>9

\* The pools have stopped: nothing is about to be listed.
LEMMA StopInv ==
    ASSUME PromotionInv, StopPools
    PROVE  PromotionInv'
  <1> USE DEF PromotionInv
  <1>1. /\ phase = "stopping" /\ phase' = "save"
        /\ UNCHANGED <<clock, disk, listed, kind, now, mem, known, job, err, read, missed>>
    BY DEF StopPools, process
  <1>2. \A c \in Cands : job[c] \notin {"checking", "adding"}
    BY DEF StopPools, Running, KindOf
  <1>3. TypeOK'
    BY <1>1 DEF TypeOK
  <1>4. RunIsOrdered'
    BY <1>1, <1>2 DEF RunIsOrdered, KindOf, Considered
  <1>5. RecordsAreSound' /\ PromotedIsListed' /\ ListingIsKnown' /\ FinalAreKept'
    BY <1>1 DEF RecordsAreSound, PromotedIsListed, ListingIsKnown, FinalAreKept, KindOf
  <1> QED
    BY <1>3, <1>4, <1>5

-----------------------------------------------------------------------------
\* The invariant is inductive.
LEMMA PromotionNext == PromotionInv /\ [Next]_vars => PromotionInv'
  <1> SUFFICES ASSUME PromotionInv, [Next]_vars PROVE PromotionInv'
    OBVIOUS
  <1>1. CASE UNCHANGED vars
    BY <1>1 DEF vars, PromotionInv, TypeOK, RecordsAreSound, RunIsOrdered, PromotedIsListed,
                ListingIsKnown, FinalAreKept, KindOf, Considered
  <1>2. CASE Next
    BY <1>2, TickInv, BeginInv, SelectInv, WaitInv, StopInv, DownInv, SaveInv,
       TakeInv, CheckInv, AddInv DEF Next
  <1> QED
    BY <1>1, <1>2

\* The reachable states satisfy the inductive invariant.
THEOREM PromotionInvariant == Spec => []PromotionInv
  BY PromotionInit, PromotionNext, PTL DEF Spec

\* The ranges of the variables of a run are kept.
THEOREM PromotionTypes == Spec => []TypeOK
  BY PromotionInvariant, PTL DEF PromotionInv

\* Whatever the runs, crashes and lost saves, a candidate is promoted only after
\* MinSuccess counted checks that lie at least MinInterval apart.
THEOREM PromotionEarned == Spec => []PromotionIsEarned
  <1>1. PromotionInv => PromotionIsEarned
    BY SoundIsEarned, AbsentIsNoCandidate DEF PromotionInv, RecordsAreSound, PromotionIsEarned
  <1> QED
    BY <1>1, PromotionInvariant, PTL

\* A candidate is listed before it is saved as promoted, with one exception: the
\* errors of listings that run when Wait returns are never read.
THEOREM PromotionListed == Spec => []PromotedIsListed
  BY PromotionInvariant, PTL DEF PromotionInv

\* Promoted candidates stay promoted on disk, and expired ones expired until they
\* are three times Expiry old.
THEOREM PromotionFinal == Spec => FinalStatusesStay
  <1> DEFINE Kept == \A c \in Cands :
                         /\ disk[c].status = "promoted" => disk'[c] = disk[c]
                         /\ disk[c].status = "expired" =>
                               \/ disk'[c] = disk[c]
                               \/ disk'[c] = Absent /\ clock - disk[c].firstSeen > 3 * Expiry
  <1>1. PromotionInv /\ [Next]_vars => [Kept]_disk
    <2> SUFFICES ASSUME PromotionInv, Next, disk' # disk PROVE Kept
      BY DEF vars
    <2>1. Save
      BY DEF Next, Tick, Begin, Select, WaitReturns, StopPools, FailedRunEnds, Crash, Take, Check, Add
    <2>2. disk' = mem /\ phase # "down"
      BY <2>1 DEF Save
    <2> QED
      BY <2>2 DEF PromotionInv, FinalAreKept
  <1> QED
    BY <1>1, PromotionInvariant, PTL DEF Spec, FinalStatusesStay

-----------------------------------------------------------------------------
(* The register of candidates.                                             *)

\* The register counts as FiniteSets does.
LEMMA SameCardinality == \A S : Register!Cardinality(S) = Cardinality(S)
  BY DEF Register!Cardinality, Cardinality

\* What of a record is in the register.
LEMMA EntryFields ==
    ASSUME NEW c \in Candidate
    PROVE  /\ Entry(c) = [status |-> Entry(c).status, firstSeen |-> c.firstSeen, counted |-> c.counted]
           /\ Entry(c).status = IF c.status \in {"promoted", "expired"} THEN c.status ELSE "open"
           /\ Entry(c).firstSeen = c.firstSeen /\ Entry(c).counted = c.counted
           /\ Entry(c) # Register!Unseen /\ Entry(Absent) = Register!Unseen
           /\ Considered(c) <=> Entry(c).status = "open"
  BY AbsentIsNoCandidate DEF Entry, Register!Unseen, Considered, Candidate

\* Observe is what meeting a candidate means.
LEMMA ObservedEntry ==
    ASSUME NEW c \in Candidate \cup {Absent}, NEW n \in Nat
    PROVE  Entry(Observed(c, n)) = Register!Met(Entry(c), n)
  <1>1. CASE c = Absent
    <2> DEFINE d == [status |-> "pending", firstSeen |-> n, lastSuccess |-> 0,
                     successes |-> 0, counted |-> {}]
    <2>1. Observed(c, n) = d
      BY <1>1 DEF Observed
    <2>2. d \in Candidate
      BY DEF Candidate, Statuses
    <2>3. Entry(d) = [status |-> "open", firstSeen |-> n, counted |-> {}]
      BY <2>2, AbsentIsNoCandidate DEF Entry
    <2>4. Entry(c) = Register!Unseen
      BY <1>1 DEF Entry, Register!Unseen
    <2> QED
      BY <2>1, <2>3, <2>4 DEF Register!Met
  <1>2. CASE c \in Candidate
    <2>1. Observed(c, n) = c /\ Entry(c) # Register!Unseen
      BY <1>2, AbsentIsNoCandidate, EntryFields DEF Observed
    <2> QED
      BY <2>1 DEF Register!Met
  <1> QED
    BY <1>1, <1>2

\* A new record tells what it counts, and so does one that is marked as expired.
LEMMA ObservedTells ==
    ASSUME NEW c \in Candidate \cup {Absent}, NEW n \in Nat, c # Absent => Tells(c)
    PROVE  Tells(Observed(c, n))
  <1>1. CASE c = Absent
    <2>1. /\ Observed(c, n).lastSuccess = 0
          /\ Observed(c, n).successes = 0
      BY <1>1 DEF Observed
    <2> QED
      BY <2>1, SettingsAssumption DEF Tells
  <1> QED
    BY <1>1 DEF Observed

LEMMA AfterEligibleTells ==
    ASSUME NEW c \in Candidate, NEW n \in Nat, Tells(c)
    PROVE  Tells(AfterEligible(c, n))
  <1>1. CASE Considered(c) /\ Overdue(c, n)
    <2>1. /\ AfterEligible(c, n).lastSuccess = c.lastSuccess
          /\ AfterEligible(c, n).successes = c.successes
          /\ AfterEligible(c, n).counted = c.counted
      BY <1>1 DEF AfterEligible, Candidate
    <2> QED
      BY <1>1, <2>1 DEF Tells, Considered
  <1> QED
    BY <1>1 DEF AfterEligible

\* Result by the fields of the record.
LEMMA CheckedTells ==
    ASSUME NEW c \in Candidate, NEW n \in Nat, NEW outcome \in CheckOutcomes, Tells(c), Considered(c)
    PROVE  Tells(Checked(c, outcome, n))
  <1> DEFINE d == Checked(c, outcome, n)
  <1>1. c.successes \in Nat /\ MinSuccess \in Nat /\ c.successes < MinSuccess
    BY SettingsAssumption DEF Candidate, Tells, Considered
  <1>2. CASE outcome = "qualified" /\ Counts(c, n)
    <2>1. d.lastSuccess = n /\ d.counted = c.counted \cup {n} /\ d.successes = c.successes + 1
      BY <1>2 DEF Checked, Candidate
    <2>2. d.status = IF d.successes >= MinSuccess THEN "promoted" ELSE outcome
      BY <1>2, <2>1 DEF Checked, Candidate
    <2> QED
      BY <1>1, <2>1, <2>2 DEF Tells
  <1>3. CASE ~(outcome = "qualified" /\ Counts(c, n))
    <2>1. d.lastSuccess = c.lastSuccess /\ d.counted = c.counted /\ d.successes = c.successes
      BY <1>3 DEF Checked, Candidate
    <2> QED
      BY <1>1, <2>1 DEF Tells
  <1> QED
    BY <1>2, <1>3

\* Result by the times: a check counts when it is far enough from every other, and
\* it promotes only by counting.
LEMMA CheckedEntry ==
    ASSUME NEW c \in Candidate, NEW n \in Nat, n > 0, NEW outcome \in CheckOutcomes,
           Sound(c), Tells(c), Considered(c), ~Overdue(c, n)
    PROVE  LET d == Checked(c, outcome, n)
           IN  \/ Entry(d) = Entry(c) /\ d.status # "promoted"
               \/ Register!MayGain(Entry(c), n) /\ Entry(d) = Register!OneMore(Entry(c), n)
  <1> DEFINE d == Checked(c, outcome, n)
  <1>1. /\ c.successes \in Nat /\ c.firstSeen \in Nat /\ c.lastSuccess \in Nat
        /\ c.counted \in SUBSET Nat
        /\ MinSuccess \in Nat /\ MinInterval \in Nat \ {0} /\ Expiry \in Nat
        /\ c.successes < MinSuccess
    BY SettingsAssumption DEF Candidate, Tells, Considered
  <1>2. /\ Entry(c) = [status |-> "open", firstSeen |-> c.firstSeen, counted |-> c.counted]
        /\ Entry(c) # Register!Unseen
    BY EntryFields
  <1>3. CASE outcome = "qualified" /\ Counts(c, n)
    <2>1. \A u \in c.counted : n - u >= MinInterval
      BY <1>1, <1>3 DEF Counts, Sound
    <2>2. n \notin c.counted
      BY <1>1, <2>1
    <2>3. Cardinality(c.counted \cup {n}) = c.successes + 1
      BY <2>2, FS_AddElement DEF Sound
    <2>4. d = [c EXCEPT !.status = IF c.successes + 1 >= MinSuccess THEN "promoted" ELSE "qualified",
                        !.successes = c.successes + 1,
                        !.lastSuccess = n,
                        !.counted = c.counted \cup {n}]
      BY <1>3 DEF Checked
    <2>5. /\ d # Absent /\ d.firstSeen = c.firstSeen /\ d.counted = c.counted \cup {n}
          /\ d.status = IF c.successes + 1 >= MinSuccess THEN "promoted" ELSE "qualified"
      <3>1. d \in Candidate
        BY CheckedIsSound
      <3> HIDE DEF d
      <3> QED
        BY <2>4, <3>1, AbsentIsNoCandidate DEF Candidate
    <2>6. Entry(d) = [status |-> IF c.successes + 1 >= MinSuccess THEN "promoted" ELSE "open",
                      firstSeen |-> c.firstSeen, counted |-> c.counted \cup {n}]
      <3> HIDE DEF d
      <3> QED
        BY <2>5 DEF Entry
    <2>7. Register!OneMore(Entry(c), n) =
              [status |-> IF c.successes + 1 >= MinSuccess THEN "promoted" ELSE "open",
               firstSeen |-> c.firstSeen, counted |-> c.counted \cup {n}]
      <3>1. Register!Met(Entry(c), n) = Entry(c)
        BY <1>2 DEF Register!Met
      <3>2. Entry(c).counted = c.counted /\ Entry(c).firstSeen = c.firstSeen
        BY <1>2
      <3> QED
        BY <2>3, <3>1, <3>2, SameCardinality DEF Register!OneMore
    <2>8. Register!MayGain(Entry(c), n)
      BY <1>1, <1>2, <2>1 DEF Register!MayGain, Register!Met, Overdue
    <2> QED
      BY <2>6, <2>7, <2>8
  <1>4. CASE ~(outcome = "qualified" /\ Counts(c, n))
    <2>1. d \in Candidate
      BY CheckedIsSound
    <2>2. d.status = outcome /\ d.firstSeen = c.firstSeen /\ d.counted = c.counted
      BY <1>1, <1>4 DEF Checked, Candidate
    <2>3. Entry(d) = [status |-> "open", firstSeen |-> c.firstSeen, counted |-> c.counted]
            /\ d.status # "promoted"
      <3> HIDE DEF d
      <3> QED
        BY <2>1, <2>2, AbsentIsNoCandidate DEF Entry, CheckOutcomes
    <2> QED
      BY <1>2, <2>3
  <1> QED
    BY <1>3, <1>4

\* Nothing was done in a run that has not begun, or that has gone.
LEMMA RegisterStart == Init => RegisterInv
  <1> SUFFICES ASSUME Init PROVE RegisterInv
    OBVIOUS
  <1>1. FieldsTell /\ RunIsOneStep
    BY DEF Init, FieldsTell, RunIsOneStep
  <1> QED
    BY <1>1, PromotionInit DEF RegisterInv

LEMMA RegisterGone ==
    ASSUME RegisterInv, Gone, disk' \in {disk, mem}
    PROVE  FieldsTell' /\ RunIsOneStep'
  <1>1. \A c \in Cands : mem'[c] = Absent
    BY DEF Gone
  <1>2. FieldsTell'
    BY <1>1 DEF RegisterInv, FieldsTell
  <1>3. RunIsOneStep'
    BY DEF Gone, RunIsOneStep
  <1> QED
    BY <1>2, <1>3

\* A step that changes no record, whatever job goes on, changes nothing of this.
LEMMA RegisterKept ==
    ASSUME RegisterInv, UNCHANGED <<disk, mem, clock>>, phase # "down" \/ phase' = "down",
           \A c \in Cands : /\ OnlyMet(c)' => OnlyMet(c)
                            /\ job'[c] \in {"queued", "checking"} => job[c] \in {"queued", "checking"}
                            /\ job'[c] = "adding" => job[c] = "adding"
    PROVE  FieldsTell' /\ RunIsOneStep'
  <1>1. FieldsTell'
    BY DEF RegisterInv, FieldsTell
  <1>2. CASE phase' = "down"
    BY <1>1, <1>2 DEF RunIsOneStep
  <1>3. CASE phase' # "down"
    <2> SUFFICES ASSUME NEW c \in Cands
                 PROVE  /\ Register!Treated(Entry(disk[c]), Entry(mem[c]), clock)
                        /\ OnlyMet(c)' => mem[c] \in {disk[c], Observed(disk[c], clock)}
                        /\ job'[c] \in {"queued", "checking"} => ~Overdue(mem[c], clock)
                        /\ job'[c] = "adding" =>
                              /\ Register!MayGain(Entry(disk[c]), clock)
                              /\ Register!OneMore(Entry(disk[c]), clock).status = "promoted"
      BY <1>1 DEF RunIsOneStep
    <2> QED
      BY <1>3 DEF RegisterInv, RunIsOneStep
  <1> QED
    BY <1>2, <1>3

\* The time passes while no run is under way.
LEMMA RegisterTick == ASSUME RegisterInv, Tick PROVE FieldsTell' /\ RunIsOneStep'
  BY DEF Tick, process, RegisterInv, FieldsTell, RunIsOneStep

\* A run begins with what it has only met.
LEMMA RegisterBegin == ASSUME RegisterInv, Begin PROVE FieldsTell' /\ RunIsOneStep'
  <1>1. /\ phase = "down" /\ phase' = "select" /\ UNCHANGED <<disk, clock, job>>
        /\ PromotionInv /\ TypeOK /\ clock \in Nat
    BY DEF Begin, RegisterInv, PromotionInv, TypeOK
  <1>2. PICK seen \in SUBSET Cands :
            mem' = [c \in Cands |-> IF c \in seen THEN Observed(disk[c], clock) ELSE disk[c]]
    BY DEF Begin
  <1>3. ASSUME NEW c \in Cands
        PROVE  /\ mem'[c] \in {disk[c], Observed(disk[c], clock)}
               /\ mem'[c] # Absent => Tells(mem'[c])
               /\ Register!Treated(Entry(disk[c]), Entry(mem'[c]), clock)
               /\ job[c] = "none"
    <2>1. disk[c] \in Candidate \cup {Absent} /\ (disk[c] # Absent => Tells(disk[c]))
      BY <1>1 DEF TypeOK, RegisterInv, FieldsTell
    <2>2. mem'[c] \in {disk[c], Observed(disk[c], clock)}
      BY <1>2
    <2>3. Entry(Observed(disk[c], clock)) = Register!Met(Entry(disk[c]), clock)
      BY <1>1, <2>1, ObservedEntry
    <2>4. Tells(Observed(disk[c], clock))
      BY <1>1, <2>1, ObservedTells
    <2>5. job[c] = "none"
      BY <1>1 DEF PromotionInv, RunIsOrdered
    <2> QED
      BY <2>1, <2>2, <2>3, <2>4, <2>5 DEF Register!Treated
  <1>4. FieldsTell'
    BY <1>1, <1>3 DEF RegisterInv, FieldsTell
  <1>5. RunIsOneStep'
    BY <1>1, <1>3 DEF RunIsOneStep
  <1> QED
    BY <1>4, <1>5

\* Those of the kind that are too old expire, and jobs are made for the others.
LEMMA RegisterSelect == ASSUME RegisterInv, Select PROVE FieldsTell' /\ RunIsOneStep'
  <1>1. /\ phase = "select" /\ phase' = "wait" /\ UNCHANGED <<disk, clock, kind, now>>
        /\ mem' = [c \in Cands |-> IF KindOf(c) = kind THEN AfterEligible(mem[c], now) ELSE mem[c]]
        /\ job' = [c \in Cands |->
                      IF KindOf(c) = kind /\ Eligible(mem[c], now) THEN "queued" ELSE job[c]]
    BY DEF Select
  <1>2. PromotionInv /\ TypeOK /\ clock \in Nat /\ now = clock
    BY <1>1 DEF RegisterInv, PromotionInv, TypeOK, RunIsOrdered
  <1>3. ASSUME NEW c \in Cands, KindOf(c) = kind
        PROVE  /\ mem'[c] # Absent => Tells(mem'[c])
               /\ Register!Treated(Entry(disk[c]), Entry(mem'[c]), clock)
               /\ job'[c] \in {"queued", "none"}
               /\ job'[c] = "queued" => /\ mem'[c] \in {disk[c], Observed(disk[c], clock)}
                                        /\ ~Overdue(mem'[c], clock)
    <2>1. /\ disk[c] \in Candidate \cup {Absent}
          /\ mem[c] \in Candidate \cup {Absent}
          /\ mem[c] # Absent => Tells(mem[c])
          /\ mem[c] \in {disk[c], Observed(disk[c], clock)}
          /\ Register!Treated(Entry(disk[c]), Entry(mem[c]), clock)
          /\ job[c] = "none"
      BY <1>1, <1>2, <1>3
         DEF TypeOK, RegisterInv, PromotionInv, FieldsTell, RunIsOneStep, OnlyMet, RunIsOrdered
    <2>2. mem'[c] = AfterEligible(mem[c], clock)
            /\ job'[c] = IF Eligible(mem[c], clock) THEN "queued" ELSE "none"
      BY <1>1, <1>2, <1>3, <2>1
    <2>3. CASE Considered(mem[c]) /\ Overdue(mem[c], clock)
      <3>1. mem[c] \in Candidate /\ mem[c].firstSeen \in Nat /\ Tells(mem[c])
        BY <2>1, <2>3 DEF Considered, Candidate
      <3>2. mem'[c] = [mem[c] EXCEPT !.status = "expired"]
        BY <2>2, <2>3 DEF AfterEligible
      <3>3. /\ mem'[c] \in Candidate /\ mem'[c].status = "expired"
            /\ mem'[c].firstSeen = mem[c].firstSeen /\ mem'[c].counted = mem[c].counted
        BY <3>1, <3>2 DEF Candidate, Statuses
      <3>4. Tells(mem'[c])
        BY <1>2, <2>2, <3>1, AfterEligibleTells
      <3>5. mem[c] = disk[c]
        <4>1. CASE disk[c] = Absent
          <5>1. Observed(disk[c], clock).firstSeen = clock
            BY <4>1 DEF Observed
          <5>2. mem[c].firstSeen = clock
            BY <2>1, <3>1, <4>1, <5>1, AbsentIsNoCandidate
          <5> QED
            BY <1>2, <2>3, <5>2, SettingsAssumption DEF Overdue
        <4>2. CASE disk[c] # Absent
          BY <2>1, <4>2 DEF Observed
        <4> QED
          BY <4>1, <4>2
      <3>6. Entry(mem'[c]) = [Entry(disk[c]) EXCEPT !.status = "expired"]
        <4>1. Entry(disk[c]) = [status |-> "open", firstSeen |-> mem[c].firstSeen,
                                counted |-> mem[c].counted]
          BY <2>3, <3>1, <3>5, EntryFields
        <4>2. Entry(mem'[c]) = [status |-> "expired", firstSeen |-> mem[c].firstSeen,
                                counted |-> mem[c].counted]
          BY <3>3, EntryFields
        <4> QED
          BY <4>1, <4>2
      <3>7. Entry(disk[c]).status = "open" /\ clock - Entry(disk[c]).firstSeen > Expiry
        BY <2>3, <3>1, <3>5, EntryFields DEF Overdue
      <3>8. Register!Treated(Entry(disk[c]), Entry(mem'[c]), clock)
        BY <3>6, <3>7 DEF Register!Treated, Register!Expired
      <3> QED
        BY <2>2, <2>3, <3>4, <3>8 DEF Eligible
    <2>4. CASE ~(Considered(mem[c]) /\ Overdue(mem[c], clock))
      <3>1. mem'[c] = mem[c]
        BY <2>2, <2>4 DEF AfterEligible
      <3> QED
        BY <2>1, <2>2, <3>1 DEF Eligible
    <2> QED
      BY <2>3, <2>4
  <1>4. ASSUME NEW c \in Cands, KindOf(c) # kind
        PROVE  mem'[c] = mem[c] /\ job'[c] = job[c]
    BY <1>1, <1>4
  <1>5. FieldsTell'
    BY <1>1, <1>3, <1>4 DEF RegisterInv, FieldsTell
  <1>6. ASSUME NEW c \in Cands, OnlyMet(c)'
        PROVE  IF KindOf(c) = kind THEN job'[c] = "queued" ELSE OnlyMet(c)
    BY <1>1, <1>3, <1>4, <1>6 DEF OnlyMet, KindOf
  <1>7. RunIsOneStep'
    <2> SUFFICES ASSUME NEW c \in Cands
                 PROVE  /\ Register!Treated(Entry(disk[c]), Entry(mem'[c]), clock)
                        /\ OnlyMet(c)' => mem'[c] \in {disk[c], Observed(disk[c], clock)}
                        /\ job'[c] \in {"queued", "checking"} => ~Overdue(mem'[c], clock)
                        /\ job'[c] = "adding" =>
                              /\ Register!MayGain(Entry(disk[c]), clock)
                              /\ Register!OneMore(Entry(disk[c]), clock).status = "promoted"
      BY <1>1 DEF RunIsOneStep
    <2>1. CASE KindOf(c) = kind
      BY <1>3, <1>6, <2>1
    <2>2. CASE KindOf(c) # kind
      BY <1>1, <1>4, <1>6, <2>2 DEF RegisterInv, RunIsOneStep
    <2> QED
      BY <2>1, <2>2
  <1> QED
    BY <1>5, <1>7

\* A check that ends counts, with distance to the others, or it changes nothing that
\* is registered.
LEMMA RegisterCheck ==
    ASSUME RegisterInv, NEW c \in Cands, Check(c)
    PROVE  FieldsTell' /\ RunIsOneStep'
  <1>1. /\ job[c] = "checking"
        /\ UNCHANGED <<clock, disk, phase, kind, now>>
    BY DEF Check
  <1>2. PICK outcome \in Outcomes :
            /\ mem' = [mem EXCEPT ![c] = Checked(mem[c], outcome, now)]
            /\ job' = [job EXCEPT ![c] = IF Checked(mem[c], outcome, now).status = "promoted"
                                         THEN "adding" ELSE "done"]
    BY DEF Check
  <1>3. /\ phase # "down" /\ now = clock /\ clock > 0 /\ clock \in Nat
        /\ Considered(mem[c]) /\ mem[c] \in Candidate /\ Sound(mem[c]) /\ Tells(mem[c])
        /\ disk[c] \in Candidate \cup {Absent}
        /\ mem[c] \in {disk[c], Observed(disk[c], clock)} /\ ~Overdue(mem[c], clock)
    <2>1. Considered(mem[c]) /\ phase # "down" /\ now = clock /\ clock > 0
      BY <1>1 DEF RegisterInv, PromotionInv, RunIsOrdered
    <2> QED
      BY <1>1, <2>1 DEF RegisterInv, PromotionInv, TypeOK, RecordsAreSound, Considered, FieldsTell,
                        RunIsOneStep, OnlyMet
  <1> DEFINE d == Checked(mem[c], outcome, clock)
             r == Entry(disk[c])
  <1>4. outcome \in CheckOutcomes
    BY PromotionAssumption
  <1>5. \/ Entry(d) = Entry(mem[c]) /\ d.status # "promoted"
        \/ Register!MayGain(Entry(mem[c]), clock) /\ Entry(d) = Register!OneMore(Entry(mem[c]), clock)
    BY <1>3, <1>4, CheckedEntry
  <1>6. Tells(d) /\ d \in Candidate
    BY <1>3, <1>4, CheckedTells, CheckedIsSound
  <1>7. Entry(mem[c]) \in {r, Register!Met(r, clock)}
    BY <1>3, ObservedEntry
  <1> HIDE DEF d
  <1>8. /\ Register!MayGain(Entry(mem[c]), clock) => Register!MayGain(r, clock)
        /\ Register!OneMore(Entry(mem[c]), clock) = Register!OneMore(r, clock)
    <2>1. CASE Entry(mem[c]) = r
      BY <2>1
    <2>2. CASE r = Register!Unseen
      <3>1. /\ Register!Met(r, clock) = [status |-> "open", firstSeen |-> clock, counted |-> {}]
            /\ Register!Met(r, clock) # Register!Unseen
            /\ r.counted = {}
        BY <2>2 DEF Register!Met, Register!Unseen
      <3>2. Register!Met(Register!Met(r, clock), clock) = Register!Met(r, clock)
              /\ Register!Met(r, clock).counted = r.counted
        BY <3>1 DEF Register!Met
      <3> QED
        BY <1>7, <3>2 DEF Register!MayGain, Register!OneMore
    <2>3. CASE r # Register!Unseen
      <3>1. Register!Met(r, clock) = r
        BY <2>3 DEF Register!Met
      <3> QED
        BY <1>7, <3>1
    <2> QED
      BY <2>2, <2>3
  <1>9. Register!Treated(r, Entry(d), clock)
    BY <1>5, <1>7, <1>8 DEF Register!Treated
  <1>10. d.status = "promoted" =>
            Register!MayGain(r, clock) /\ Register!OneMore(r, clock).status = "promoted"
    BY <1>5, <1>6, <1>8, EntryFields
  <1>11. /\ mem'[c] = d /\ job'[c] \in {"adding", "done"}
         /\ job'[c] = "adding" => d.status = "promoted"
         /\ \A e \in Cands : e # c => mem'[e] = mem[e] /\ job'[e] = job[e]
    BY <1>2, <1>3 DEF d, RegisterInv, PromotionInv, TypeOK
  <1>12. FieldsTell'
    BY <1>1, <1>6, <1>11 DEF RegisterInv, FieldsTell
  <1>13. RunIsOneStep'
    <2> SUFFICES ASSUME NEW e \in Cands
                 PROVE  /\ Register!Treated(Entry(disk[e]), Entry(mem'[e]), clock)
                        /\ OnlyMet(e)' => mem'[e] \in {disk[e], Observed(disk[e], clock)}
                        /\ job'[e] \in {"queued", "checking"} => ~Overdue(mem'[e], clock)
                        /\ job'[e] = "adding" =>
                              /\ Register!MayGain(Entry(disk[e]), clock)
                              /\ Register!OneMore(Entry(disk[e]), clock).status = "promoted"
      BY <1>1 DEF RunIsOneStep
    <2>1. CASE e = c
      <3>1. ~OnlyMet(c)'
        <4>1. /\ ~(kind = "channel" /\ KindOf(c) = "source")
              /\ ~(phase = "select" /\ KindOf(c) = kind)
          BY <1>1 DEF RegisterInv, PromotionInv, RunIsOrdered
        <4> QED
          BY <1>1, <1>11, <4>1 DEF OnlyMet, KindOf
      <3> QED
        BY <1>9, <1>10, <1>11, <2>1, <3>1
    <2>2. CASE e # c
      <3>1. OnlyMet(e)' => OnlyMet(e)
        BY <1>1, <1>11, <2>2 DEF OnlyMet, KindOf
      <3> QED
        BY <1>3, <1>11, <2>2, <3>1 DEF RegisterInv, RunIsOneStep
    <2> QED
      BY <2>1, <2>2
  <1> QED
    BY <1>12, <1>13

\* Wait returns: what is pruned is forgotten, and what is still checked is kept.
LEMMA RegisterWait == ASSUME RegisterInv, WaitReturns PROVE FieldsTell' /\ RunIsOneStep'
  <1>1. /\ phase = "wait" /\ phase' \in {"select", "stopping", "failing"}
        /\ UNCHANGED <<clock, disk, now, job>>
        /\ kind' = kind \/ (kind = "channel" /\ kind' = "source")
        /\ phase' = "select" => kind' = "source" /\ kind = "channel"
    BY DEF WaitReturns
  <1>2. \A c \in Cands : OnlyMet(c)' => OnlyMet(c)
    BY <1>1 DEF OnlyMet, KindOf
  <1>3. CASE UNCHANGED mem
    <2>1. \A c \in Cands : /\ job'[c] \in {"queued", "checking"} => job[c] \in {"queued", "checking"}
                           /\ job'[c] = "adding" => job[c] = "adding"
      BY <1>1
    <2> QED
      BY <1>1, <1>2, <1>3, <2>1, RegisterKept
  <1>4. CASE kind = "source" /\ mem' = [c \in Cands |-> Pruned(mem[c], now)]
    <2>1. now = clock /\ clock \in Nat /\ kind' = kind /\ phase' # "select"
      BY <1>1, <1>4 DEF RegisterInv, PromotionInv, RunIsOrdered, TypeOK
    <2>2. ASSUME NEW c \in Cands
          PROVE  \/ mem'[c] = mem[c]
                 \/ /\ mem'[c] = Absent
                    /\ ~OnlyMet(c)'
                    /\ Register!Treated(Entry(disk[c]), Entry(mem'[c]), clock)
      <3>1. /\ mem[c] \in Candidate \cup {Absent} /\ disk[c] \in Candidate \cup {Absent}
            /\ mem'[c] = Pruned(mem[c], clock)
            /\ job[c] \in {"queued", "checking"} => Considered(mem[c])
            /\ Register!Treated(Entry(disk[c]), Entry(mem[c]), clock)
        BY <1>1, <1>4, <2>1 DEF RegisterInv, PromotionInv, RunIsOrdered, TypeOK, RunIsOneStep
      <3>2. CASE mem'[c] # mem[c]
        <4>1. /\ mem'[c] = Absent /\ mem[c] \in Candidate
              /\ mem[c].status = "expired" /\ clock - mem[c].firstSeen > 3 * Expiry
          BY <2>1, <3>1, <3>2, PrunedKeeps
        <4>2. ~OnlyMet(c)'
          BY <1>1, <1>4, <2>1, <3>1, <4>1 DEF OnlyMet, Considered
        <4>3. Entry(mem[c]).status = "expired" /\ Entry(mem[c]).firstSeen = mem[c].firstSeen
          BY <4>1, EntryFields
        <4>4. Entry(mem'[c]) = Register!Unseen
          BY <4>1 DEF Entry, Register!Unseen
        <4>5. \/ Entry(mem[c]) = Entry(disk[c])
              \/ Register!Expired(Entry(disk[c]), Entry(mem[c]), clock)
          BY <3>1, <4>3 DEF Register!Treated, Register!Met, Register!OneMore, Register!Forgotten,
                            Register!Unseen
        <4>6. /\ Entry(disk[c]).status \in {"open", "expired"}
              /\ Entry(disk[c]).firstSeen = mem[c].firstSeen
          <5>1. CASE Entry(mem[c]) = Entry(disk[c])
            BY <4>3, <5>1
          <5>2. CASE Register!Expired(Entry(disk[c]), Entry(mem[c]), clock)
            <6>1. /\ Entry(disk[c]).status = "open"
                  /\ Entry(mem[c]) = [Entry(disk[c]) EXCEPT !.status = "expired"]
              BY <5>2 DEF Register!Expired
            <6>2. disk[c] \in Candidate
              BY <3>1, <6>1 DEF Entry, Absent
            <6>3. Entry(disk[c]) = [status |-> "open", firstSeen |-> disk[c].firstSeen,
                                    counted |-> disk[c].counted]
              BY <6>1, <6>2, EntryFields
            <6> QED
              BY <4>3, <6>1, <6>3
          <5> QED
            BY <4>5, <5>1, <5>2
        <4> QED
          BY <4>1, <4>2, <4>4, <4>6 DEF Register!Treated, Register!Forgotten
      <3> QED
        BY <3>2
    <2>3. FieldsTell'
      BY <1>1, <2>2 DEF RegisterInv, FieldsTell
    <2>4. RunIsOneStep'
      <3> SUFFICES ASSUME NEW c \in Cands
                   PROVE  /\ Register!Treated(Entry(disk[c]), Entry(mem'[c]), clock)
                          /\ OnlyMet(c)' => mem'[c] \in {disk[c], Observed(disk[c], clock)}
                          /\ job[c] \in {"queued", "checking"} => ~Overdue(mem'[c], clock)
                          /\ job[c] = "adding" =>
                                /\ Register!MayGain(Entry(disk[c]), clock)
                                /\ Register!OneMore(Entry(disk[c]), clock).status = "promoted"
        BY <1>1 DEF RunIsOneStep
      <3>1. job[c] \in {"queued", "checking"} => OnlyMet(c)'
        BY <1>1 DEF OnlyMet
      <3> QED
        BY <1>1, <1>2, <2>2, <3>1 DEF RegisterInv, RunIsOneStep
    <2> QED
      BY <2>3, <2>4
  <1> QED
    BY <1>3, <1>4 DEF WaitReturns, RegisterInv, PromotionInv, TypeOK

\* Jobs that are taken, candidates that are listed and pools that stop change no
\* record.
LEMMA RegisterJobs ==
    ASSUME RegisterInv, StopPools \/ (\E c \in Cands : Take(c) \/ Add(c))
    PROVE  FieldsTell' /\ RunIsOneStep'
  <1>1. CASE StopPools
    <2>1. UNCHANGED <<disk, mem, clock, job, kind>> /\ phase = "stopping" /\ phase' = "save"
      BY <1>1 DEF StopPools, process
    <2> QED
      BY <2>1, RegisterKept DEF OnlyMet, KindOf
  <1>2. ASSUME NEW c \in Cands, Take(c) \/ Add(c)
        PROVE  FieldsTell' /\ RunIsOneStep'
    <2>1. /\ UNCHANGED <<disk, mem, clock, phase, kind>>
          /\ \/ job[c] = "queued" /\ \E s \in {"checking", "done"} : job' = [job EXCEPT ![c] = s]
             \/ job[c] = "adding" /\ job' = [job EXCEPT ![c] = "done"]
      BY <1>2 DEF Take, Add
    <2>2. job \in [Cands -> {"none", "queued", "checking", "adding", "done"}]
      BY DEF RegisterInv, PromotionInv, TypeOK
    <2>3. \A e \in Cands : /\ job'[e] \in {"queued", "checking"} => job[e] \in {"queued", "checking"}
                           /\ job'[e] = "adding" => job[e] = "adding"
      BY <2>1, <2>2
    <2>4. \A e \in Cands : OnlyMet(e)' => OnlyMet(e)
      BY <2>1, <2>3 DEF OnlyMet, KindOf
    <2>5. phase # "down"
      BY <2>1 DEF RegisterInv, PromotionInv, RunIsOrdered
    <2> QED
      BY <2>1, <2>3, <2>4, <2>5, RegisterKept
  <1> QED
    BY <1>1, <1>2

\* This is inductive too.
LEMMA RegisterStep == RegisterInv /\ [Next]_vars => RegisterInv'
  <1> SUFFICES ASSUME RegisterInv, [Next]_vars PROVE RegisterInv'
    OBVIOUS
  <1>1. PromotionInv'
    BY PromotionNext DEF RegisterInv
  <1>2. FieldsTell' /\ RunIsOneStep'
    <2>1. CASE UNCHANGED vars
      BY <2>1 DEF vars, RegisterInv, FieldsTell, RunIsOneStep, OnlyMet, KindOf
    <2>2. CASE Save \/ Crash \/ FailedRunEnds
      BY <2>2, RegisterGone DEF Save, Crash, FailedRunEnds
    <2>3. CASE Tick \/ Begin \/ Select \/ WaitReturns
      BY <2>3, RegisterTick, RegisterBegin, RegisterSelect, RegisterWait
    <2>4. CASE StopPools \/ (\E c \in Cands : Take(c) \/ Add(c))
      BY <2>4, RegisterJobs
    <2>5. ASSUME NEW c \in Cands, Check(c) PROVE FieldsTell' /\ RunIsOneStep'
      BY <2>5, RegisterCheck
    <2> QED
      BY <2>1, <2>2, <2>3, <2>4, <2>5 DEF Next
  <1> QED
    BY <1>1, <1>2 DEF RegisterInv

\* The runs implement the register: each is a transaction on the records, and a
\* candidate is listed when, and only when, its last success is there.
THEOREM PromotionIsTransactional == Spec => ImplementsCandidateRegister
  <1> DEFINE R == [c \in Cands |-> Entry(disk[c])]
  <1>1. Init => Register!SInit
    <2> SUFFICES ASSUME Init PROVE Register!SInit
      OBVIOUS
    <2>1. \A c \in Cands : Entry(disk[c]) = Register!Unseen
      BY DEF Init, Entry, Register!Unseen
    <2> QED
      BY <2>1 DEF Init, Register!SInit
  <1>2. RegisterInv /\ [Next]_vars => [Register!SNext]_(Register!svars)
    <2> SUFFICES ASSUME RegisterInv, [Next]_vars
                 PROVE  [Register!SNext]_(Register!svars)
      OBVIOUS
    <2> USE DEF Register!svars
    <2>1. CASE UNCHANGED vars
      BY <2>1 DEF vars
    <2>2. CASE Tick
      <3>1. phase = "down" /\ clock' > clock /\ UNCHANGED <<disk, listed, phase, missed>>
        BY <2>2 DEF Tick, RegisterInv, PromotionInv, TypeOK
      <3> QED
        BY <3>1 DEF Register!SNext, Register!Pass
    <2>3. CASE Begin
      BY <2>3 DEF Begin, Register!SNext, Register!Begin
    <2>4. CASE Select \/ WaitReturns \/ StopPools \/ \E c \in Cands : Take(c) \/ Check(c)
      <3>1. UNCHANGED <<disk, listed, missed, clock>>
        BY <2>4 DEF Select, WaitReturns, StopPools, Take, Check
      <3>2. phase # "down" /\ phase' # "down"
        BY <2>4 DEF Select, WaitReturns, StopPools, Take, Check, RegisterInv, PromotionInv, RunIsOrdered
      <3> QED
        BY <3>1, <3>2
    <2>5. ASSUME NEW c \in Cands, Add(c) PROVE Register!List(c) \/ UNCHANGED Register!svars
      <3>1. /\ UNCHANGED <<disk, clock, phase>> /\ phase # "down"
            /\ Register!MayGain(Entry(disk[c]), clock)
            /\ Register!OneMore(Entry(disk[c]), clock).status = "promoted"
            /\ \/ listed' = listed \cup {c} /\ missed' = missed
               \/ missed' \in {missed, missed \cup {c}} /\ listed' = listed
        BY <2>5 DEF Add, RegisterInv, PromotionInv, RunIsOrdered, RunIsOneStep
      <3>2. R[c] = Entry(disk[c])
        OBVIOUS
      <3> QED
        BY <3>1, <3>2 DEF Register!List
    <2>6. CASE Crash \/ FailedRunEnds
      BY <2>6 DEF Crash, FailedRunEnds, Gone, Register!SNext, Register!Abort
    <2>7. CASE Save
      <3>1. /\ phase = "save" /\ phase' = "down" /\ UNCHANGED <<clock, listed, missed>>
            /\ disk' \in {disk, mem}
        BY <2>7 DEF Save, Gone
      <3>2. CASE disk' = disk
        BY <3>1, <3>2 DEF Register!SNext, Register!Abort
      <3>3. CASE disk' = mem
        <4>1. \A c \in Cands : Register!Treated(R[c], R'[c], clock)
          BY <3>1, <3>3 DEF RegisterInv, RunIsOneStep
        <4>2. ASSUME NEW c \in Cands, R'[c].status = "promoted"
              PROVE  c \in listed \cup missed
          <5>1. mem[c] \in Candidate \cup {Absent}
            BY DEF RegisterInv, PromotionInv, TypeOK
          <5>2. Entry(mem[c]).status = "promoted"
            BY <3>3, <4>2
          <5>3. mem[c].status = "promoted"
            BY <5>1, <5>2, AbsentIsNoCandidate, EntryFields DEF Entry
          <5>4. PromotedIsListed'
            BY <2>7, SaveInv DEF RegisterInv, PromotionInv
          <5> QED
            BY <3>1, <3>3, <5>3, <5>4 DEF PromotedIsListed
        <4> QED
          BY <3>1, <4>1, <4>2 DEF Register!SNext, Register!Commit
      <3> QED
        BY <3>1, <3>2, <3>3
    <2> QED
      BY <2>1, <2>2, <2>3, <2>4, <2>5, <2>6, <2>7 DEF Next, Register!SNext
  <1>3. Spec => []RegisterInv
    BY RegisterStart, RegisterStep, PTL DEF Spec
  <1> QED
    BY <1>1, <1>2, <1>3, PTL DEF Spec, ImplementsCandidateRegister, Register!SSpec
=============================================================================
