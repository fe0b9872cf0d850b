---------------------------- MODULE ArchiveProofs ----------------------------
(***************************************************************************)
(* Proofs about DailyArchive, for every length of a day, every retention   *)
(* and every number of days: what is archived and published is what was    *)
(* seen, whatever run crashed or failed in between.                        *)
(***************************************************************************)
EXTENDS DailyArchive, TLAPS

\* Multiples of the length of a day are in the order of the days.
LEMMA DaysInOrder ==
    \A a, b \in Int : a <= b => DayLength * a <= DayLength * b
<1> SUFFICES ASSUME NEW a \in Int, NEW b \in Int, a <= b
             PROVE  DayLength * a <= DayLength * b
  OBVIOUS
<1>1. DayLength \in Nat BY ArchiveAssumption
<1>2. b - a \in Nat OBVIOUS
<1>3. DayLength * (b - a) >= 0 BY <1>1, <1>2
<1>4. DayLength * (b - a) = DayLength * b - DayLength * a BY <1>1
<1>5. DayLength * a \in Int /\ DayLength * b \in Int BY <1>1
<1> QED BY <1>3, <1>4, <1>5

\* A time is in its day ...
LEMMA DayBounds ==
    \A t \in Nat : /\ Day(t) \in Nat
                   /\ DayLength * Day(t) <= t
                   /\ t < DayLength * (Day(t) + 1)
<1>1. DayLength \in Nat /\ DayLength > 0 BY ArchiveAssumption
<1> QED BY <1>1 DEF Day

\* ... and in no other.
LEMMA DayUnique ==
    \A t \in Nat, d \in Int : DayLength * d <= t /\ t < DayLength * (d + 1) => Day(t) = d
<1> SUFFICES ASSUME NEW t \in Nat, NEW d \in Int, DayLength * d <= t, t < DayLength * (d + 1)
             PROVE  Day(t) = d
  OBVIOUS
<1>0. DayLength \in Nat /\ Day(t) \in Nat BY ArchiveAssumption, DayBounds
<1>1. ~ Day(t) + 1 <= d
  <2>1. Day(t) + 1 <= d => DayLength * (Day(t) + 1) <= DayLength * d BY <1>0, DaysInOrder
  <2>2. DayLength * (Day(t) + 1) \in Int /\ DayLength * d \in Int BY <1>0
  <2> QED BY <2>1, <2>2, DayBounds
<1>2. ~ d + 1 <= Day(t)
  <2>1. d + 1 <= Day(t) => DayLength * (d + 1) <= DayLength * Day(t) BY <1>0, DaysInOrder
  <2>2. DayLength * (d + 1) \in Int /\ DayLength * Day(t) \in Int BY <1>0
  <2> QED BY <2>1, <2>2, DayBounds
<1> QED BY <1>0, <1>1, <1>2

\* Later times are in later days, or in the same.
LEMMA DayMonotone == \A s, t \in Nat : s <= t => Day(s) <= Day(t)
<1> SUFFICES ASSUME NEW s \in Nat, NEW t \in Nat, s <= t PROVE Day(s) <= Day(t) OBVIOUS
<1>0. DayLength \in Nat /\ Day(s) \in Nat /\ Day(t) \in Nat BY ArchiveAssumption, DayBounds
<1>1. Day(t) + 1 <= Day(s) => DayLength * (Day(t) + 1) <= DayLength * Day(s) BY <1>0, DaysInOrder
<1>2. DayLength * (Day(t) + 1) \in Int /\ DayLength * Day(s) \in Int BY <1>0
<1> QED BY <1>0, <1>1, <1>2, DayBounds

\* A day that is before another ends before it.
LEMMA DayEnds == \A t \in Nat, d \in Int : Day(t) <= d => t < DayLength * (d + 1)
<1> SUFFICES ASSUME NEW t \in Nat, NEW d \in Int, Day(t) <= d PROVE t < DayLength * (d + 1) OBVIOUS
<1>0. DayLength \in Nat /\ Day(t) \in Nat BY ArchiveAssumption, DayBounds
<1>1. DayLength * (Day(t) + 1) <= DayLength * (d + 1) BY <1>0, DaysInOrder
<1>2. DayLength * (Day(t) + 1) \in Int /\ DayLength * (d + 1) \in Int BY <1>0
<1> QED BY <1>1, <1>2, DayBounds

\* What Prune forgets is of an earlier day.
LEMMA BeforeHorizon == \A s, t \in Nat : t < Horizon(s) => Day(t) < Day(s)
<1> SUFFICES ASSUME NEW s \in Nat, NEW t \in Nat, t < Horizon(s) PROVE Day(t) < Day(s) OBVIOUS
<1>0. DayLength \in Nat /\ Day(s) \in Nat /\ Day(t) \in Nat /\ DailyDays \in Int /\ 1 <= DailyDays
  BY ArchiveAssumption, DayBounds
<1>1. DayLength * 1 <= DayLength * DailyDays BY <1>0, DaysInOrder
<1>2. t < s - DayLength
  <2>1. DayLength * DailyDays \in Int /\ DayLength * 1 = DayLength BY <1>0
  <2> QED BY <1>0, <1>1, <2>1 DEF Horizon
<1>3. DayLength * (Day(s) + 1) = DayLength * Day(s) + DayLength BY <1>0
<1>4. Day(s) <= Day(t) => DayLength * Day(s) <= DayLength * Day(t) BY <1>0, DaysInOrder
<1>5. DayLength * Day(s) \in Int /\ DayLength * Day(t) \in Int BY <1>0
<1> QED BY <1>0, <1>2, <1>3, <1>4, <1>5, DayBounds

-----------------------------------------------------------------------------
(* The inductive invariant.                                                *)

\* A run uses the time it started at and the entries it saves.  Nothing is of a
\* later time than the clock or of a later day than the store.
Clocked ==
    /\ stage # "down" => started = time /\ entries = stored.entries
    /\ stored.day <= Day(time)
    /\ \A x \in observed : x[1] <= time /\ Day(x[1]) <= stored.day
    /\ \A d \in ranOn : d <= stored.day

\* Every entry was observed, and an observation is in an entry, at its time or later,
\* or has been forgotten after its day.
Tells ==
    /\ \A c \in Configs, o \in Origins :
          stored.entries[<<c, o>>] # Never => <<stored.entries[<<c, o>>], o, c>> \in observed
    /\ \A x \in observed :
          \/ stored.entries[<<x[3], x[2]>>] >= x[1]
          \/ /\ stored.entries[<<x[3], x[2]>>] = Never
             /\ x[1] < Horizon(time)
             /\ Day(x[1]) < stored.day

\* The day of the store is over.
Over == stored.day # Never /\ stored.day < Day(time)

Publishing == stage \in {"write", "replace", "rename"}
Temporary  == <<"temporary", 0>>
All        == <<"all", 0>>

\* What a run is publishing, and that an ended day is published before the next is
\* collected.
Flow ==
    /\ Publishing => \/ target = Daily(stored.day) /\ Over
                     \/ target \in {Temporary, All} /\ stored.day = Day(time)
    /\ stage = "prune" => Over
    /\ stage = "report" => stored.day = Day(time)
    /\ stage \in {"prune", "collect"} /\ Over =>
          files[Daily(stored.day)] = Whole(SeenOn(stored.day)) \/ ~Retained(stored.day)
    /\ published # Never => stage \in {"report", "down"}

\* Whose directories may be left.
Leftovers ==
    /\ nexts \subseteq {Temporary, All, Daily(stored.day)}
    /\ Daily(stored.day) \in nexts => Over /\ (stage = "down" \/ (Publishing /\ target = Daily(stored.day)))
    /\ Publishing /\ target = All => Temporary \notin nexts
    /\ NothingIsLeftBehind

\* The lines of today's lists, and of the rolling list of a run at time t.
TodayLines ==
    {l \in {"combined", "protocols"} \X Origins \X Configs :
        /\ \E t \in Time : Day(t) = stored.day /\ <<t, l[2], l[3]>> \in observed
        /\ l[1] = "combined" => l[3] \in Vpn}
RollingLines(at) ==
    {l \in {"combined"} \X Origins \X Vpn :
        \E t \in Time : <<t, l[2], l[3]>> \in observed /\ t > at - DayLength * RollingDays}

Publishes ==
    /\ Publishing /\ target = All => files[Temporary] = Whole(TodayLines)
    /\ CompleteRunPublishes

ArchiveInv == ArchiveTypeOK /\ Clocked /\ Tells /\ Flow /\ Leftovers /\ DaysAreArchived /\ Publishes

-----------------------------------------------------------------------------
(* What a snapshot of the entries says.                                    *)

\* Times are numbers.
LEMMA Times == Time \subseteq Nat /\ MaxTime \in Nat /\ (\A d \in Days : d \in Nat)
BY ArchiveAssumption, DayBounds DEF Time, Days

\* An observation is its time, its origin and its config.
LEMMA Triples ==
    \A x \in Time \X Origins \X Configs :
        x[1] \in Nat /\ x[2] \in Origins /\ x[3] \in Configs /\ <<x[1], x[2], x[3]>> = x
<1> SUFFICES ASSUME NEW x \in Time \X Origins \X Configs
             PROVE  x[1] \in Nat /\ x[2] \in Origins /\ x[3] \in Configs /\ <<x[1], x[2], x[3]>> = x
  OBVIOUS
<1>1. x[1] \in Time /\ x[2] \in Origins /\ x[3] \in Configs /\ <<x[1], x[2], x[3]>> = x
  OBVIOUS
<1> QED BY <1>1, Times

\* The lines of a window that ends after everything observed, and from whose start on
\* nothing has been forgotten, are those of what was observed in it.
LEMMA SnapshotTells ==
    ASSUME ArchiveTypeOK, Tells, NEW start \in Int, NEW end \in Int, NEW lists,
           \A x \in observed : x[1] < end,
           \A x \in observed : x[1] >= start => stored.entries[<<x[3], x[2]>>] # Never
    PROVE  Snapshot(stored.entries, start, end, lists) =
              {l \in lists \X Origins \X Configs :
                  /\ \E t \in Time : t >= start /\ <<t, l[2], l[3]>> \in observed
                  /\ l[1] = "combined" => l[3] \in Vpn}
<1> DEFINE es == stored.entries
<1>1. ASSUME NEW c \in Configs, NEW o \in Origins
      PROVE  (es[<<c, o>>] # Never /\ es[<<c, o>>] >= start /\ es[<<c, o>>] < end)
                 <=> (\E t \in Time : t >= start /\ <<t, o, c>> \in observed)
  <2>0. es[<<c, o>>] \in Time \cup {Never} BY DEF ArchiveTypeOK, Entries
  <2>1. ASSUME es[<<c, o>>] # Never, es[<<c, o>>] >= start
        PROVE  \E t \in Time : t >= start /\ <<t, o, c>> \in observed
    BY <2>0, <2>1 DEF Tells
  <2>2. ASSUME NEW t \in Time, t >= start, <<t, o, c>> \in observed
        PROVE  es[<<c, o>>] # Never /\ es[<<c, o>>] >= start /\ es[<<c, o>>] < end
    <3>0. \A x \in observed : x[1] >= start => es[<<x[3], x[2]>>] # Never OBVIOUS
    <3>1. es[<<c, o>>] # Never
      <4>1. <<t, o, c>>[1] = t /\ <<t, o, c>>[2] = o /\ <<t, o, c>>[3] = c OBVIOUS
      <4> HIDE DEF es
      <4> QED BY <2>2, <3>0, <4>1
    <3>2. es[<<c, o>>] >= t BY <2>2, <3>1 DEF Tells
    <3>3. <<es[<<c, o>>], o, c>> \in observed BY <3>1 DEF Tells
    <3>4. es[<<c, o>>] < end BY <3>3
    <3> HIDE DEF es
    <3>5. es[<<c, o>>] \in Time /\ t \in Time BY <2>0, <3>1
    <3>6. es[<<c, o>>] \in Nat /\ t \in Nat BY <3>5, Times
    <3> QED BY <2>2, <3>1, <3>2, <3>4, <3>6
  <2> QED BY <2>1, <2>2
<1> HIDE DEF es
<1>2. ASSUME NEW l \in lists \X Origins \X Configs
      PROVE  (es[<<l[3], l[2]>>] # Never /\ es[<<l[3], l[2]>>] >= start /\ es[<<l[3], l[2]>>] < end)
                 <=> (\E t \in Time : t >= start /\ <<t, l[2], l[3]>> \in observed)
  BY <1>1
<1>3. Snapshot(es, start, end, lists) =
         {l \in lists \X Origins \X Configs :
            /\ es[<<l[3], l[2]>>] # Never /\ es[<<l[3], l[2]>>] >= start /\ es[<<l[3], l[2]>>] < end
            /\ l[1] = "combined" => l[3] \in Vpn}
  BY DEF Snapshot
<1>4. Snapshot(es, start, end, lists) =
         {l \in lists \X Origins \X Configs :
            /\ \E t \in Time : t >= start /\ <<t, l[2], l[3]>> \in observed
            /\ l[1] = "combined" => l[3] \in Vpn}
  BY <1>2, <1>3
<1> QED BY <1>4 DEF es

\* The snapshot of the store's day is what was seen on it.
LEMMA DayTells ==
    ASSUME ArchiveTypeOK, Clocked, Tells, stored.day # Never, NEW lists
    PROVE  Snapshot(stored.entries, DayLength * stored.day, DayLength * (stored.day + 1), lists) =
              {l \in lists \X Origins \X Configs :
                  /\ \E t \in Time : Day(t) = stored.day /\ <<t, l[2], l[3]>> \in observed
                  /\ l[1] = "combined" => l[3] \in Vpn}
<1> DEFINE start == DayLength * stored.day
           end   == DayLength * (stored.day + 1)
<1>0. stored.day \in Nat BY Times DEF ArchiveTypeOK
<1>1. start \in Int /\ end \in Int BY <1>0, ArchiveAssumption
<1>2. ASSUME NEW x \in observed PROVE x[1] < end /\ (x[1] >= start <=> Day(x[1]) = stored.day)
  <2>1. x[1] \in Nat /\ Day(x[1]) <= stored.day BY Times DEF ArchiveTypeOK, Clocked
  <2>2. x[1] < end BY <1>0, <2>1, DayEnds
  <2>3. x[1] >= start => Day(x[1]) = stored.day BY <1>0, <2>1, <2>2, DayUnique
  <2>4. Day(x[1]) = stored.day => x[1] >= start BY <2>1, DayBounds
  <2> QED BY <2>2, <2>3, <2>4
<1>3. \A x \in observed : x[1] >= start => stored.entries[<<x[3], x[2]>>] # Never
  <2> SUFFICES ASSUME NEW x \in observed, x[1] >= start, stored.entries[<<x[3], x[2]>>] = Never PROVE FALSE
    OBVIOUS
  <2>1. Day(x[1]) = stored.day BY <1>2
  <2>2. x[1] \in Nat BY Times DEF ArchiveTypeOK
  <2>3. ~ Day(x[1]) < stored.day BY <1>0, <2>1
  <2>4. stored.entries[<<x[3], x[2]>>] >= x[1] BY <2>3 DEF Tells
  <2> QED BY <2>2, <2>4 DEF Never
<1> HIDE DEF start, end
<1>4. Snapshot(stored.entries, start, end, lists) =
              {l \in lists \X Origins \X Configs :
                  /\ \E t \in Time : t >= start /\ <<t, l[2], l[3]>> \in observed
                  /\ l[1] = "combined" => l[3] \in Vpn}
  BY <1>1, <1>2, <1>3, SnapshotTells
<1>5. \A l \in lists \X Origins \X Configs :
          (\E t \in Time : t >= start /\ <<t, l[2], l[3]>> \in observed)
             <=> (\E t \in Time : Day(t) = stored.day /\ <<t, l[2], l[3]>> \in observed)
  BY <1>2
<1> QED BY <1>4, <1>5 DEF start, end

-----------------------------------------------------------------------------
(* Types.                                                                  *)

Lines == {"combined", "protocols"} \X Origins \X Configs

\* What is written to a root are lines.
LEMMA ContentLines ==
    ASSUME ArchiveTypeOK, NEW es, NEW root \in Roots, NEW t
    PROVE  Whole(Content(es, root, t)) \in [state : {"absent", "partial", "whole"}, lines : SUBSET Lines]
<1>1. ASSUME NEW start, NEW end, NEW lists \in SUBSET {"combined", "protocols"}
      PROVE  Snapshot(es, start, end, lists) \subseteq Lines
  BY DEF Snapshot, Lines
<1>2. {"combined"} \in SUBSET {"combined", "protocols"} OBVIOUS
<1>3. root[1] \in {"temporary", "all", "daily"} BY DEF Roots, Daily
<1>4. Content(es, root, t) \subseteq Lines BY <1>1, <1>2, <1>3 DEF Content
<1> QED BY <1>4 DEF Whole

\* The roots that a run publishes to.
LEMMA TheRoots == /\ Temporary \in Roots /\ All \in Roots /\ <<"temporary", 0>> \in Roots
                  /\ <<"all", 0>> \in Roots /\ (\A d \in Days : Daily(d) \in Roots)
                  /\ Temporary # All /\ (\A d : Daily(d) # Temporary /\ Daily(d) # All)
                  /\ \A d, e : Daily(d) = Daily(e) => d = e
BY DEF Roots, Temporary, All, Daily

\* A day of the clock is one of the days.
LEMMA ClockDays == \A t \in Time : Day(t) \in Days
BY Times, DayBounds, DayMonotone DEF Time, Days

\* A run that ends keeps the types.
LEMMA EndsTypes ==
    ASSUME ArchiveTypeOK, NEW fs, NEW ns, Ends(fs, ns), ns \subseteq Roots,
           fs \in [Roots -> [state : {"absent", "partial", "whole"}, lines : SUBSET Lines]]
    PROVE  ArchiveTypeOK'
<1>1. Empty \in Entries BY DEF Empty, Entries
<1>2. 0 \in Time BY Times DEF Time
<1>3. <<"all", 0>> \in Roots BY TheRoots
<1> QED BY <1>1, <1>2, <1>3 DEF Ends, ArchiveTypeOK, Lines

\* A file in place of another.
LEMMA FileTypes ==
    ASSUME ArchiveTypeOK, NEW r \in Roots,
           NEW x \in {files[r], Torn(files[r]), NoFiles, Partial}
    PROVE  [files EXCEPT ![r] = x] \in
              [Roots -> [state : {"absent", "partial", "whole"}, lines : SUBSET Lines]]
<1>1. NoFiles \in [state : {"absent", "partial", "whole"}, lines : SUBSET Lines]
      /\ Partial \in [state : {"absent", "partial", "whole"}, lines : SUBSET Lines]
  BY DEF NoFiles, Partial
<1>2. files \in [Roots -> [state : {"absent", "partial", "whole"}, lines : SUBSET Lines]]
  BY DEF ArchiveTypeOK, Lines
<1>3. x \in [state : {"absent", "partial", "whole"}, lines : SUBSET Lines]
  BY <1>1, <1>2 DEF Torn
<1> QED BY <1>2, <1>3

\* Every step keeps the types.
LEMMA TypeStep == ArchiveTypeOK /\ [ArchiveNext]_archiveVars => ArchiveTypeOK'
<1> SUFFICES ASSUME ArchiveTypeOK, [ArchiveNext]_archiveVars PROVE ArchiveTypeOK' OBVIOUS
<1> USE DEF Lines
<1>1. CASE TimePasses
  <2>1. time' \in Time BY <1>1, Times DEF TimePasses, ArchiveTypeOK, Time
  <2> QED BY <1>1, <2>1 DEF TimePasses, ArchiveTypeOK
<1>2. CASE BeginRun
  <2>1. target' \in Roots /\ stage' \in {"write", "collect"} BY <1>2, TheRoots DEF BeginRun, ArchiveTypeOK
  <2>2. stored.entries \in Entries BY DEF ArchiveTypeOK
  <2> QED BY <1>2, <2>1, <2>2 DEF BeginRun, ArchiveTypeOK
<1>3. CASE WriteNext
  <2>1. CASE Ends(files, nexts \ {target}) \/ Ends(files, nexts \cup {target})
    BY <2>1, EndsTypes DEF ArchiveTypeOK
  <2>2. CASE ~(Ends(files, nexts \ {target}) \/ Ends(files, nexts \cup {target}))
    BY <1>3, <2>2 DEF WriteNext, ArchiveTypeOK
  <2> QED BY <2>1, <2>2
<1>4. CASE RemoveOld
  <2>0. target \in Roots BY DEF ArchiveTypeOK
  <2>1. ASSUME NEW left \in {files[target], Torn(files[target]), NoFiles}, NEW ns \in {nexts, nexts \ {target}},
               Ends([files EXCEPT ![target] = left], ns)
        PROVE  ArchiveTypeOK'
    BY <2>0, <2>1, EndsTypes, FileTypes DEF ArchiveTypeOK
  <2>2. CASE files' = [files EXCEPT ![target] = NoFiles] /\ stage' = "rename"
             /\ UNCHANGED <<time, stored, nexts, started, entries, target, observed, ranOn, published>>
    <3>1. files' \in [Roots -> [state : {"absent", "partial", "whole"}, lines : SUBSET Lines]]
      BY <2>0, <2>2, FileTypes
    <3> QED BY <2>2, <3>1 DEF ArchiveTypeOK
  <2> QED BY <1>4, <2>1, <2>2 DEF RemoveOld
<1>5. CASE RenameNext
  <2>1. CASE Ends(files, nexts) BY <2>1, EndsTypes DEF ArchiveTypeOK
  <2>2. CASE /\ files' = [files EXCEPT ![target] = Whole(Content(entries, target, started))]
             /\ nexts' = nexts \ {target}
             /\ AfterPublish
             /\ UNCHANGED <<time, stored, started, entries, observed, ranOn>>
    <3>1. files' \in [Roots -> [state : {"absent", "partial", "whole"}, lines : SUBSET Lines]]
      BY <2>2, ContentLines DEF ArchiveTypeOK
    <3>2. /\ target' \in Roots /\ stage' \in {"prune", "write", "report"}
          /\ published' \in Time \cup {Never}
      <4>1. target[1] \in {"temporary", "all", "daily"} BY DEF ArchiveTypeOK, Roots, Daily
      <4> QED BY <2>2, <4>1, TheRoots DEF AfterPublish, ArchiveTypeOK
    <3> QED BY <2>2, <3>1, <3>2 DEF ArchiveTypeOK
  <2> QED BY <1>5, <2>1, <2>2 DEF RenameNext
<1>6. CASE PruneOne
  <2>1. PICK d \in Days :
           \/ /\ files' = [files EXCEPT ![Daily(d)] = NoFiles]
              /\ UNCHANGED <<time, stored, nexts, stage, started, entries, target, observed, ranOn, published>>
           \/ Ends([files EXCEPT ![Daily(d)] = Partial], nexts)
    BY <1>6 DEF PruneOne, Outdated
  <2>2. Daily(d) \in Roots BY TheRoots
  <2>3. CASE Ends([files EXCEPT ![Daily(d)] = Partial], nexts)
    BY <2>2, <2>3, EndsTypes, FileTypes DEF ArchiveTypeOK
  <2>4. CASE files' = [files EXCEPT ![Daily(d)] = NoFiles] /\ stage' = stage
    <3>1. files' \in [Roots -> [state : {"absent", "partial", "whole"}, lines : SUBSET Lines]]
      BY <2>2, <2>4, FileTypes
    <3> QED BY <1>6, <2>1, <2>3, <2>4, <3>1 DEF ArchiveTypeOK
  <2> QED BY <2>1, <2>3, <2>4
<1>7. CASE PruneEnds BY <1>7 DEF PruneEnds, ArchiveTypeOK
<1>8. CASE CollectAndSave
  <2>1. PICK saw \in SUBSET (Configs \X Origins) :
           /\ entries' = AfterPrune(Upserted(entries, saw, started), Horizon(started))
           /\ observed' = observed \cup {<<started, p[2], p[1]>> : p \in saw}
    BY <1>8 DEF CollectAndSave
  <2>2. started \in Time /\ entries \in Entries BY DEF ArchiveTypeOK
  <2>3. Upserted(entries, saw, started) \in Entries BY <2>2 DEF Upserted, Entries
  <2>4. entries' \in Entries BY <2>1, <2>3 DEF AfterPrune, Entries
  <2>5. observed' \subseteq Time \X Origins \X Configs BY <2>1, <2>2 DEF ArchiveTypeOK
  <2>6. Day(started) \in Days BY <2>2, ClockDays
  <2>7. stored' \in [day : Days \cup {Never}, entries : Entries] /\ ranOn' \subseteq Days
    BY <1>8, <2>4, <2>6 DEF CollectAndSave, ArchiveTypeOK
  <2> QED BY <1>8, <2>4, <2>5, <2>7, TheRoots DEF CollectAndSave, ArchiveTypeOK
<1>9. CASE RunEnds BY <1>9, EndsTypes DEF RunEnds, ArchiveTypeOK
<1>10. CASE UNCHANGED archiveVars BY <1>10 DEF archiveVars, ArchiveTypeOK
<1> QED BY <1>1, <1>2, <1>3, <1>4, <1>5, <1>6, <1>7, <1>8, <1>9, <1>10 DEF ArchiveNext

-----------------------------------------------------------------------------
(* The store.                                                              *)

\* A step that leaves the store as it is, and goes on with the run or ends it.
LEMMA StoreKept ==
    ASSUME ArchiveTypeOK, Clocked, Tells, UNCHANGED <<time, stored, observed, ranOn>>,
           \/ stage' = "down"
           \/ started' = time /\ entries' = stored.entries
           \/ stage # "down" /\ UNCHANGED <<started, entries>>
    PROVE  Clocked' /\ Tells'
BY DEF Clocked, Tells, Horizon

\* What a run collects is put into the entries and saved.
LEMMA CollectKeeps ==
    ASSUME ArchiveTypeOK, Clocked, Tells, CollectAndSave
    PROVE  Clocked' /\ Tells'
<1>0. PICK saw \in SUBSET (Configs \X Origins) :
           /\ entries' = AfterPrune(Upserted(entries, saw, started), Horizon(started))
           /\ observed' = observed \cup {<<started, p[2], p[1]>> : p \in saw}
  BY DEF CollectAndSave
<1>1. /\ started = time /\ entries = stored.entries /\ UNCHANGED <<time, started>>
      /\ stored'.day = Day(time) /\ stored'.entries = entries' /\ ranOn' = ranOn \cup {Day(time)}
  BY DEF CollectAndSave, Clocked
<1>2. /\ time \in Nat /\ Day(time) \in Nat /\ stored.day \in Int /\ stored.day <= Day(time)
      /\ entries \in Entries
  BY Times, DayBounds DEF ArchiveTypeOK, Clocked, Never
<1>3. Clocked'
  <2>1. \A x \in observed' : x[1] <= time /\ Day(x[1]) <= Day(time)
    <3>1. \A x \in observed : x[1] \in Nat /\ Day(x[1]) \in Nat BY Times, DayBounds DEF ArchiveTypeOK
    <3>2. \A x \in observed : x[1] <= time /\ Day(x[1]) <= Day(time)
      BY <1>2, <3>1 DEF Clocked
    <3>3. ASSUME NEW p \in saw PROVE <<started, p[2], p[1]>>[1] <= time /\ Day(<<started, p[2], p[1]>>[1]) <= Day(time)
      BY <1>1, <1>2
    <3> QED BY <1>0, <3>2, <3>3
  <2>2. \A d \in ranOn' : d <= Day(time)
    <3>1. \A d \in ranOn : d \in Nat /\ d <= stored.day BY Times DEF ArchiveTypeOK, Clocked
    <3> QED BY <1>1, <1>2, <3>1
  <2> QED BY <1>1, <1>2, <2>1, <2>2 DEF Clocked
<1> DEFINE es(c, o) == entries[<<c, o>>]
           up(c, o) == IF <<c, o>> \in saw THEN started ELSE es(c, o)
           H == Horizon(started)
<1>4. ASSUME NEW c \in Configs, NEW o \in Origins
      PROVE  /\ es(c, o) \in Nat \cup {Never}
             /\ entries'[<<c, o>>] \in {up(c, o), Never}
             /\ (up(c, o) # Never /\ up(c, o) >= H) => entries'[<<c, o>>] = up(c, o)
  <2> DEFINE ups == Upserted(entries, saw, started)
  <2>1. ups[<<c, o>>] = up(c, o) BY DEF Upserted
  <2>2. entries'[<<c, o>>] = IF SeenSince(ups, c, H) THEN ups[<<c, o>>] ELSE Never
    BY <1>0 DEF AfterPrune
  <2>3. ups[<<c, o>>] # Never /\ ups[<<c, o>>] >= H => SeenSince(ups, c, H) BY DEF SeenSince
  <2>4. es(c, o) \in Nat \cup {Never} BY <1>2, Times DEF Entries
  <2> HIDE DEF ups, up, H, es
  <2> QED BY <2>1, <2>2, <2>3, <2>4
<1>5. H \in Int /\ H <= time
  <2>1. DayLength \in Nat /\ DailyDays \in Nat BY ArchiveAssumption
  <2>2. DayLength * DailyDays \in Nat BY <2>1
  <2> QED BY <1>1, <1>2, <2>2 DEF Horizon
<1>6. H = Horizon(time)' BY <1>1 DEF Horizon
<1>7. ASSUME NEW c \in Configs, NEW o \in Origins, entries'[<<c, o>>] # Never
      PROVE  <<entries'[<<c, o>>], o, c>> \in observed'
  <2>1. entries'[<<c, o>>] = up(c, o) BY <1>4, <1>7
  <2>2. CASE <<c, o>> \in saw
    <3>1. <<started, <<c, o>>[2], <<c, o>>[1]>> \in observed' BY <1>0, <2>2
    <3> QED BY <2>1, <2>2, <3>1
  <2>3. CASE <<c, o>> \notin saw
    <3>1. stored.entries[<<c, o>>] # Never BY <1>1, <1>7, <2>1, <2>3
    <3>2. <<stored.entries[<<c, o>>], o, c>> \in observed BY <3>1 DEF Tells
    <3> QED BY <1>0, <1>1, <2>1, <2>3, <3>2
  <2> QED BY <2>2, <2>3
<1>8. ASSUME NEW t \in Nat, NEW c \in Configs, NEW o \in Origins, <<t, o, c>> \in observed'
      PROVE  \/ entries'[<<c, o>>] >= t
             \/ entries'[<<c, o>>] = Never /\ t < H /\ Day(t) < Day(time)
  <2>1. CASE <<c, o>> \in saw
    <3>1. t <= time
      <4>1. <<t, o, c>>[1] <= time' BY <1>3, <1>8 DEF Clocked
      <4> QED BY <1>1, <4>1
    <3>2. up(c, o) = time /\ time # Never BY <1>1, <1>2, <2>1 DEF Never
    <3> HIDE DEF up, es, H
    <3>3. entries'[<<c, o>>] = time BY <1>2, <1>4, <1>5, <3>2
    <3> QED BY <3>1, <3>3
  <2>2. CASE <<c, o>> \notin saw
    <3>1. <<t, o, c>> \in observed
      <4>1. ASSUME NEW p \in saw, <<t, o, c>> = <<started, p[2], p[1]>> PROVE FALSE
        <5>1. p = <<p[1], p[2]>> BY <1>0
        <5> QED BY <2>2, <4>1, <5>1
      <4> QED BY <1>0, <1>8, <4>1
    <3>2. \/ es(c, o) >= t
          \/ es(c, o) = Never /\ t < H /\ Day(t) < stored.day
      <4>1. <<t, o, c>>[1] = t /\ <<t, o, c>>[2] = o /\ <<t, o, c>>[3] = c OBVIOUS
      <4> QED BY <1>1, <3>1, <4>1 DEF Tells
    <3>3. up(c, o) = es(c, o) BY <2>2
    <3>4. Day(t) \in Nat BY DayBounds
    <3> HIDE DEF up, es
    <3>5. CASE es(c, o) = Never /\ t < H /\ Day(t) < stored.day
      <4> HIDE DEF H
      <4>1. entries'[<<c, o>>] = Never BY <1>4, <3>3, <3>5
      <4> QED BY <1>2, <3>4, <3>5, <4>1
    <3>6. CASE es(c, o) >= t /\ es(c, o) # Never
      <4>1. es(c, o) \in Nat BY <1>4, <3>6
      <4>2. CASE es(c, o) >= H
        <5> HIDE DEF H
        <5>1. entries'[<<c, o>>] = es(c, o) BY <1>4, <3>3, <3>6, <4>2
        <5> QED BY <3>6, <5>1
      <4>3. CASE ~ es(c, o) >= H
        <5>1. t < H
          <6> HIDE DEF H
          <6> QED BY <1>5, <3>6, <4>1, <4>3
        <5>2. Day(t) < Day(time) BY <1>1, <1>2, <5>1, BeforeHorizon
        <5> HIDE DEF H
        <5>3. entries'[<<c, o>>] \in {es(c, o), Never} BY <1>4, <3>3
        <5> QED BY <3>6, <5>1, <5>2, <5>3
      <4> QED BY <4>2, <4>3
    <3>7. ~(es(c, o) >= t /\ es(c, o) = Never) BY DEF Never
    <3> QED BY <3>2, <3>5, <3>6, <3>7
  <2> QED BY <2>1, <2>2
<1>9. Tells'
  <2> HIDE DEF H, es, up
  <2>1. \A c \in Configs, o \in Origins :
           stored'.entries[<<c, o>>] # Never => <<stored'.entries[<<c, o>>], o, c>> \in observed'
    BY <1>1, <1>7
  <2>2. ASSUME NEW x \in observed'
        PROVE  \/ stored'.entries[<<x[3], x[2]>>] >= x[1]
               \/ /\ stored'.entries[<<x[3], x[2]>>] = Never
                  /\ x[1] < Horizon(time)'
                  /\ Day(x[1]) < stored'.day
    <3>1. x \in Time \X Origins \X Configs BY TypeStep DEF ArchiveTypeOK, ArchiveNext
    <3>2. x[1] \in Nat /\ x[2] \in Origins /\ x[3] \in Configs /\ <<x[1], x[2], x[3]>> = x
      BY <3>1, Triples
    <3>3. <<x[1], x[2], x[3]>> \in observed' BY <3>2
    <3> DEFINE t == x[1]
               o == x[2]
               c == x[3]
    <3> HIDE DEF t, o, c
    <3>5. \/ entries'[<<c, o>>] >= t
          \/ entries'[<<c, o>>] = Never /\ t < H /\ Day(t) < Day(time)
      BY <1>8, <3>2, <3>3 DEF t, o, c
    <3>4. \/ entries'[<<x[3], x[2]>>] >= x[1]
          \/ entries'[<<x[3], x[2]>>] = Never /\ x[1] < H /\ Day(x[1]) < Day(time)
      BY <3>5 DEF t, o, c
    <3> QED BY <1>1, <1>6, <3>4
  <2> QED BY <2>1, <2>2 DEF Tells, Horizon, Day
<1> QED BY <1>3, <1>9

\* Every step keeps what the store says.
LEMMA StoreStep == ArchiveTypeOK /\ Clocked /\ Tells /\ [ArchiveNext]_archiveVars => Clocked' /\ Tells'
<1> SUFFICES ASSUME ArchiveTypeOK, Clocked, Tells, [ArchiveNext]_archiveVars PROVE Clocked' /\ Tells' OBVIOUS
<1>1. CASE TimePasses
  <2>1. /\ time \in Nat /\ time' = time + 1 /\ Day(time) <= Day(time + 1)
        /\ Day(time) \in Nat /\ Day(time + 1) \in Nat /\ stage' = "down"
    BY <1>1, Times, DayMonotone, DayBounds DEF TimePasses, ArchiveTypeOK
  <2>2. stored.day \in Int /\ stored.day <= Day(time + 1)
    <3>1. stored.day \in Int BY Times DEF ArchiveTypeOK, Never
    <3> HIDE DEF Day
    <3> QED BY <2>1, <3>1 DEF Clocked
  <2>3. \A x \in observed : x[1] \in Nat /\ x[1] <= time + 1
    <3>1. \A x \in observed : x[1] \in Nat BY Triples DEF ArchiveTypeOK
    <3>2. \A x \in observed : x[1] <= time BY DEF Clocked
    <3> QED BY <2>1, <3>1, <3>2
  <2>4. Clocked'
    <3>1. stored'.day <= Day(time') BY <1>1, <2>1, <2>2 DEF TimePasses
    <3>2. \A x \in observed' : x[1] <= time' /\ Day(x[1]) <= stored'.day
      BY <1>1, <2>1, <2>3 DEF TimePasses, Clocked
    <3>3. \A d \in ranOn' : d <= stored'.day BY <1>1 DEF TimePasses, Clocked
    <3> QED BY <2>1, <3>1, <3>2, <3>3 DEF Clocked, Day
  <2>5. Horizon(time) \in Int /\ Horizon(time) <= Horizon(time + 1)
    <3>1. DayLength * DailyDays \in Int BY ArchiveAssumption
    <3> QED BY <2>1, <3>1 DEF Horizon
  <2>6. Horizon(time)' = Horizon(time + 1) BY <2>1 DEF Horizon
  <2>7. \A x \in observed : x[1] < Horizon(time) => x[1] < Horizon(time + 1)
    <3> SUFFICES ASSUME NEW x \in observed, x[1] < Horizon(time) PROVE x[1] < Horizon(time + 1)
      OBVIOUS
    <3>1. Horizon(time + 1) \in Int
      <4>1. DayLength * DailyDays \in Int BY ArchiveAssumption
      <4> QED BY <2>1, <4>1 DEF Horizon
    <3> QED BY <2>3, <2>5, <3>1
  <2>8. Tells'
    <3>1. UNCHANGED <<stored, observed>> BY <1>1 DEF TimePasses
    <3> QED BY <2>6, <2>7, <3>1 DEF Tells
  <2> QED BY <2>4, <2>8
<1>2. CASE BeginRun BY <1>2, StoreKept DEF BeginRun, Clocked
<1>3. CASE CollectAndSave BY <1>3, CollectKeeps
<1>4. ASSUME NEW fs, NEW ns, Ends(fs, ns) PROVE Clocked' /\ Tells'
  BY <1>4, StoreKept DEF Ends
<1>5. CASE WriteNext BY <1>4, <1>5, StoreKept DEF WriteNext
<1>6. CASE RemoveOld BY <1>4, <1>6, StoreKept DEF RemoveOld
<1>7. CASE RenameNext BY <1>4, <1>7, StoreKept DEF RenameNext
<1>8. CASE PruneOne BY <1>4, <1>8, StoreKept DEF PruneOne
<1>9. CASE PruneEnds BY <1>9, StoreKept DEF PruneEnds
<1>10. CASE RunEnds BY <1>4, <1>10 DEF RunEnds
<1>11. CASE UNCHANGED archiveVars BY <1>11 DEF archiveVars, Clocked, Tells
<1> QED BY <1>1, <1>2, <1>3, <1>5, <1>6, <1>7, <1>8, <1>9, <1>10, <1>11 DEF ArchiveNext

-----------------------------------------------------------------------------
(* What a run publishes.                                                   *)

\* What a run writes for the day that is over is what was seen on it.
LEMMA DailyContent ==
    ASSUME ArchiveTypeOK, Clocked, Tells, stored.day # Never, entries = stored.entries
    PROVE  Content(entries, Daily(stored.day), started) = SeenOn(stored.day)
<1>0. Daily(stored.day)[1] = "daily" /\ Daily(stored.day)[2] = stored.day BY DEF Daily
<1>1. Content(entries, Daily(stored.day), started) =
         Snapshot(stored.entries, DayLength * stored.day, DayLength * (stored.day + 1), {"combined"})
  BY <1>0 DEF Content
<1> DEFINE lines == {l \in {"combined"} \X Origins \X Configs :
                        /\ \E t \in Time : Day(t) = stored.day /\ <<t, l[2], l[3]>> \in observed
                        /\ l[1] = "combined" => l[3] \in Vpn}
<1>2. Content(entries, Daily(stored.day), started) = lines BY <1>1, DayTells
<1>3. ASSUME NEW l \in lines PROVE l \in SeenOn(stored.day)
  <2>1. PICK t \in Time : Day(t) = stored.day /\ <<t, l[2], l[3]>> \in observed OBVIOUS
  <2>2. l = <<"combined", l[2], l[3]>> /\ l[3] \in Vpn OBVIOUS
  <2> DEFINE x == <<t, l[2], l[3]>>
  <2>3. x \in observed /\ Day(x[1]) = stored.day /\ x[3] \in Vpn /\ l = <<"combined", x[2], x[3]>>
    BY <2>1, <2>2
  <2> HIDE DEF x
  <2> QED BY <2>3 DEF SeenOn
<1>4. ASSUME NEW x \in observed, Day(x[1]) = stored.day, x[3] \in Vpn
      PROVE  <<"combined", x[2], x[3]>> \in lines
  <2>1. x \in Time \X Origins \X Configs BY DEF ArchiveTypeOK
  <2>2. x[1] \in Time /\ x[2] \in Origins /\ x[3] \in Configs /\ <<x[1], x[2], x[3]>> \in observed
    BY <2>1
  <2> QED BY <1>4, <2>2
<1> HIDE DEF lines
<1>5. SeenOn(stored.day) \subseteq lines BY <1>4 DEF SeenOn
<1>6. lines \subseteq SeenOn(stored.day) BY <1>3
<1> QED BY <1>2, <1>5, <1>6

\* What it writes for today ...
LEMMA TemporaryContent ==
    ASSUME ArchiveTypeOK, Clocked, Tells, stage # "down", stored.day = Day(time)
    PROVE  Content(entries, Temporary, started) = TodayLines
<1>1. started = time /\ entries = stored.entries BY DEF Clocked
<1>2. stored.day # Never BY Times, DayBounds DEF ArchiveTypeOK, Never
<1>3. Content(entries, Temporary, started) =
         Snapshot(stored.entries, DayLength * stored.day, DayLength * (stored.day + 1), {"combined", "protocols"})
  BY <1>1 DEF Content, Temporary
<1> QED BY <1>2, <1>3, DayTells DEF TodayLines

\* ... and for the rolling window, which is no longer than entries are kept.
LEMMA RollingContent ==
    ASSUME ArchiveTypeOK, Clocked, Tells, stage # "down", RollingDays <= DailyDays
    PROVE  Content(entries, All, started) = RollingLines(started)
<1>1. started = time /\ entries = stored.entries BY DEF Clocked
<1>2. time \in Nat BY Times DEF ArchiveTypeOK
<1> DEFINE window == DayLength * RollingDays
           start == time + 1 - window
           end   == time + 1
<1>3. window \in Int /\ DayLength * DailyDays \in Int /\ window <= DayLength * DailyDays
  BY ArchiveAssumption, DaysInOrder
<1> HIDE DEF window
<1>4. start \in Int /\ end \in Int BY <1>2, <1>3
<1>5. Horizon(time) < start /\ Horizon(time) \in Int BY <1>2, <1>3 DEF Horizon
<1>6. \A x \in observed : x[1] \in Nat /\ x[1] < end
  <2>1. \A x \in observed : x[1] \in Nat BY Triples DEF ArchiveTypeOK
  <2>2. \A x \in observed : x[1] <= time BY DEF Clocked
  <2> QED BY <1>2, <2>1, <2>2
<1>7. \A x \in observed : x[1] >= start => stored.entries[<<x[3], x[2]>>] # Never
  <2> SUFFICES ASSUME NEW x \in observed, x[1] >= start, stored.entries[<<x[3], x[2]>>] = Never
               PROVE  FALSE
    OBVIOUS
  <2>1. ~ Never >= x[1] BY <1>6 DEF Never
  <2>2. x[1] < Horizon(time) BY <2>1 DEF Tells
  <2> HIDE DEF start
  <2> QED BY <1>4, <1>5, <1>6, <2>2
<1>8. Content(entries, All, started) = Snapshot(stored.entries, start, end, {"combined"})
  BY <1>1 DEF Content, All, window
<1> HIDE DEF start, end
<1>9. Content(entries, All, started) =
         {l \in {"combined"} \X Origins \X Configs :
            /\ \E t \in Time : t >= start /\ <<t, l[2], l[3]>> \in observed
            /\ l[1] = "combined" => l[3] \in Vpn}
  BY <1>4, <1>6, <1>7, <1>8, SnapshotTells
<1>10. ASSUME NEW t \in Time PROVE t >= start <=> t > started - window
  <2>1. t \in Nat BY Times
  <2> QED BY <1>1, <1>2, <1>3, <2>1 DEF start
<1>11. Content(entries, All, started) =
         {l \in {"combined"} \X Origins \X Configs :
            /\ \E t \in Time : <<t, l[2], l[3]>> \in observed /\ t > started - window
            /\ l[1] = "combined" => l[3] \in Vpn}
  BY <1>9, <1>10
<1>12. RollingLines(started) =
         {l \in {"combined"} \X Origins \X Vpn :
            \E t \in Time : <<t, l[2], l[3]>> \in observed /\ t > started - window}
  BY DEF RollingLines, window
<1>13. Vpn \subseteq Configs BY ArchiveAssumption
<1> QED BY <1>11, <1>12, <1>13

\* A day that PruneDaily removes is not within the retention.
LEMMA OutdatedGoes ==
    ASSUME ArchiveTypeOK, Clocked, stage = "prune", NEW d \in Outdated
    PROVE  d \in Days /\ ~Retained(d)
<1>1. started = time /\ time \in Nat /\ Day(time) \in Nat BY Times, DayBounds DEF ArchiveTypeOK, Clocked
<1>2. d \in Nat /\ DailyDays \in Nat BY Times, ArchiveAssumption DEF Outdated
<1>3. d < Day(time) - DailyDays + 1 BY <1>1 DEF Outdated, Cutoff
<1> HIDE DEF Day
<1>4. ~ d > Day(time) - DailyDays BY <1>1, <1>2, <1>3
<1> QED BY <1>4 DEF Retained, Outdated

\* A step changes the archive only where the retention is over, or where the store's
\* own day is being published.
LEMMA ArchiveChanges ==
    ASSUME ArchiveTypeOK, Clocked, Flow, [ArchiveNext]_archiveVars, NEW d \in Days
    PROVE  \/ files'[Daily(d)] = files[Daily(d)]
           \/ ~Retained(d)
           \/ Publishing /\ d = stored.day
<1>0. files \in [Roots -> [state : {"absent", "partial", "whole"}, lines : SUBSET Lines]]
      /\ Daily(d) \in Roots /\ target \in Roots
  BY TheRoots DEF ArchiveTypeOK, Lines
<1>1. ASSUME Publishing, NEW x, files' \in {files, [files EXCEPT ![target] = x]}
      PROVE  files'[Daily(d)] = files[Daily(d)] \/ (Publishing /\ d = stored.day)
  <2>1. target = Daily(stored.day) \/ target \in {Temporary, All} BY <1>1 DEF Flow
  <2>2. CASE target # Daily(d) BY <1>0, <1>1, <2>2
  <2>3. CASE target = Daily(d)
    <3>1. d = stored.day BY <2>1, <2>3, TheRoots
    <3> QED BY <1>1, <3>1
  <2> QED BY <2>2, <2>3
<1>2. CASE WriteNext BY <1>2 DEF WriteNext, Ends
<1>3. CASE RemoveOld
  <2>1. PICK x : files' \in {files, [files EXCEPT ![target] = x]} BY <1>3 DEF RemoveOld, Ends
  <2> QED BY <1>1, <1>3, <2>1 DEF RemoveOld, Publishing
<1>4. CASE RenameNext
  <2>1. PICK x : files' \in {files, [files EXCEPT ![target] = x]} BY <1>4 DEF RenameNext, Ends
  <2> QED BY <1>1, <1>4, <2>1 DEF RenameNext, Publishing
<1>5. CASE PruneOne
  <2>1. PICK e \in Outdated : \E x : files' = [files EXCEPT ![Daily(e)] = x]
    BY <1>5 DEF PruneOne, Ends
  <2>2. e \in Days /\ ~Retained(e) BY <1>5, OutdatedGoes DEF PruneOne
  <2>3. CASE d = e BY <2>2, <2>3
  <2>4. CASE d # e
    <3>1. Daily(d) # Daily(e) BY <2>4, TheRoots
    <3> QED BY <1>0, <2>1, <3>1
  <2> QED BY <2>3, <2>4
<1>6. CASE TimePasses \/ BeginRun \/ PruneEnds \/ CollectAndSave \/ RunEnds \/ UNCHANGED archiveVars
  BY <1>6 DEF TimePasses, BeginRun, PruneEnds, CollectAndSave, RunEnds, Ends, archiveVars
<1> QED BY <1>2, <1>3, <1>4, <1>5, <1>6 DEF ArchiveNext

-----------------------------------------------------------------------------
(* The steps of a run.                                                     *)

\* What ends does not begin: the flow of a run that ends.
LEMMA EndsFlow ==
    ASSUME Flow, NEW fs, NEW ns, Ends(fs, ns)
    PROVE  Flow'
BY DEF Ends, Flow, Publishing

\* Every step keeps the flow.
LEMMA FlowStep == ArchiveTypeOK /\ Clocked /\ Tells /\ Flow /\ [ArchiveNext]_archiveVars => Flow'
<1> SUFFICES ASSUME ArchiveTypeOK, Clocked, Tells, Flow, [ArchiveNext]_archiveVars PROVE Flow' OBVIOUS
<1>1. CASE TimePasses
  <2>1. stage' = "down" BY <1>1 DEF TimePasses
  <2> QED BY <1>1, <2>1 DEF Flow, Publishing
<1>2. CASE BeginRun
  <2>0. stored.day \in Int /\ stored.day <= Day(time) /\ Day(time) \in Nat
    BY Times, DayBounds DEF ArchiveTypeOK, Clocked, Never
  <2>1. CASE stored.day \notin {Never, Day(time)}
    <3>1. Over' /\ stage' = "write" /\ target' = Daily(stored.day) /\ stored' = stored /\ published' = Never
      <4>1. stage' = "write" /\ target' = Daily(stored.day) /\ UNCHANGED <<stored, time>> /\ published' = Never
        BY <1>2, <2>1 DEF BeginRun
      <4>2. Over BY <2>0, <2>1 DEF Over
      <4> QED BY <4>1, <4>2 DEF Over, Day
    <3> QED BY <3>1 DEF Flow, Publishing
  <2>2. CASE stored.day \in {Never, Day(time)}
    <3>1. stage' = "collect" /\ UNCHANGED <<stored, time>> /\ published' = Never
      BY <1>2, <2>2 DEF BeginRun
    <3>2. ~Over BY <2>0, <2>2 DEF Over
    <3>3. ~Over' BY <3>1, <3>2 DEF Over, Day
    <3> QED BY <3>1, <3>3 DEF Flow, Publishing
  <2> QED BY <2>1, <2>2
<1>3. ASSUME NEW fs, NEW ns, Ends(fs, ns) PROVE Flow' BY <1>3, EndsFlow
<1>4. ASSUME Publishing, Publishing', UNCHANGED <<time, stored, target, observed, published>>
      PROVE  Flow'
  BY <1>4 DEF Flow, Publishing, Over, Day
<1>5. CASE WriteNext BY <1>3, <1>4, <1>5 DEF WriteNext, Publishing
<1>6. CASE RemoveOld BY <1>3, <1>4, <1>6 DEF RemoveOld, Publishing
<1>7. CASE RenameNext
  <2>1. CASE Ends(files, nexts) BY <1>3, <2>1
  <2>2. CASE /\ files' = [files EXCEPT ![target] = Whole(Content(entries, target, started))]
             /\ AfterPublish
             /\ UNCHANGED <<time, stored, started, entries, observed, ranOn>>
    <3>0. stage = "rename" /\ Publishing /\ entries = stored.entries
      BY <1>7 DEF RenameNext, Publishing, Clocked
    <3>1. CASE target = Daily(stored.day) /\ Over
      <4>1. stage' = "prune" /\ UNCHANGED published /\ UNCHANGED stored
        BY <2>2, <3>1 DEF AfterPublish, Daily
      <4>2. Over' BY <2>2, <3>1 DEF Over, Day
      <4>3. files'[Daily(stored.day)] = Whole(SeenOn(stored.day))
        <5>1. Content(entries, target, started) = SeenOn(stored.day)
          BY <3>0, <3>1, DailyContent DEF Over
        <5>2. stored.day \in Days BY <3>1 DEF Over, ArchiveTypeOK
        <5>3. Daily(stored.day) \in DOMAIN files BY <5>2, TheRoots DEF ArchiveTypeOK
        <5> QED BY <2>2, <3>1, <5>1, <5>3
      <4>4. SeenOn(stored.day)' = SeenOn(stored.day) BY <2>2 DEF SeenOn
      <4>5. published = Never BY <3>0 DEF Flow
      <4>6. files'[Daily(stored'.day)] = Whole(SeenOn(stored.day)') BY <4>1, <4>3, <4>4
      <4> QED BY <4>1, <4>2, <4>5, <4>6 DEF Flow, Publishing
    <3>2. CASE target = Temporary /\ stored.day = Day(time)
      <4>1. stage' = "write" /\ target' = All /\ UNCHANGED <<published, stored, time>>
        BY <2>2, <3>2 DEF AfterPublish, Temporary, All
      <4>2. published = Never BY <3>0 DEF Flow
      <4> QED BY <3>2, <4>1, <4>2 DEF Flow, Publishing, Day
    <3>3. CASE target = All /\ stored.day = Day(time)
      <4>1. stage' = "report" /\ UNCHANGED <<stored, time>>
        BY <2>2, <3>3 DEF AfterPublish, All
      <4> QED BY <3>3, <4>1 DEF Flow, Publishing, Day
    <3> QED BY <3>0, <3>1, <3>2, <3>3 DEF Flow
  <2> QED BY <1>7, <2>1, <2>2 DEF RenameNext
<1>8. CASE PruneOne
  <2>1. CASE \E fs, ns : Ends(fs, ns) BY <1>3, <2>1
  <2>2. CASE UNCHANGED <<time, stored, nexts, stage, started, entries, target, observed, ranOn, published>>
    <3>0. stage = "prune" /\ Over /\ stored.day \in Days /\ published = Never
      BY <1>8 DEF PruneOne, Flow, Over, ArchiveTypeOK
    <3>1. files'[Daily(stored.day)] = files[Daily(stored.day)] \/ ~Retained(stored.day)
      BY <3>0, ArchiveChanges DEF Publishing
    <3>2. files'[Daily(stored.day)] = Whole(SeenOn(stored.day)) \/ ~Retained(stored.day)
      BY <3>0, <3>1 DEF Flow
    <3>3. SeenOn(stored.day)' = SeenOn(stored.day) BY <2>2 DEF SeenOn
    <3>4. Retained(stored.day)' = Retained(stored.day) BY <2>2 DEF Retained, Day
    <3>5. stage' = "prune" /\ Over' /\ published' = Never BY <2>2, <3>0 DEF Over, Day
    <3>6. files'[Daily(stored'.day)] = Whole(SeenOn(stored.day)') \/ ~Retained(stored.day)'
      BY <2>2, <3>2, <3>3, <3>4
    <3> QED BY <3>5, <3>6 DEF Flow, Publishing
  <2> QED BY <1>8, <2>1, <2>2 DEF PruneOne
<1>9. CASE PruneEnds
  <2>1. /\ stage = "prune" /\ stage' = "collect"
        /\ UNCHANGED <<time, stored, files, observed, published>>
    BY <1>9 DEF PruneEnds
  <2>2. SeenOn(stored.day)' = SeenOn(stored.day) /\ Retained(stored.day)' = Retained(stored.day)
    BY <2>1 DEF SeenOn, Retained, Day
  <2>3. files[Daily(stored.day)] = Whole(SeenOn(stored.day)) \/ ~Retained(stored.day)
    BY <2>1 DEF Flow
  <2>4. files'[Daily(stored'.day)] = Whole(SeenOn(stored.day)') \/ ~Retained(stored.day)'
    BY <2>1, <2>2, <2>3
  <2>5. published' = Never BY <2>1 DEF Flow
  <2> QED BY <2>1, <2>4, <2>5 DEF Flow, Publishing
<1>10. CASE CollectAndSave
  <2>1. /\ stage' = "write" /\ target' = Temporary /\ stored'.day = Day(time) /\ time' = time
        /\ published' = Never
    BY <1>10 DEF CollectAndSave, Clocked, Flow, Temporary
  <2> QED BY <2>1 DEF Flow, Publishing, Day
<1>11. CASE RunEnds BY <1>3, <1>11 DEF RunEnds
<1>12. CASE UNCHANGED archiveVars BY <1>12 DEF archiveVars, Flow, Publishing, Over, Retained, SeenOn, Day
<1> QED BY <1>1, <1>2, <1>5, <1>6, <1>7, <1>8, <1>9, <1>10, <1>11, <1>12 DEF ArchiveNext

\* A day that the clock's passing leaves within the retention was so before.
LEMMA RetainedBefore ==
    ASSUME ArchiveTypeOK, [ArchiveNext]_archiveVars, NEW d \in Days, Retained(d)'
    PROVE  Retained(d)
<1>1. time' = time \/ (time \in Nat /\ time' = time + 1)
  BY Times DEF ArchiveNext, TimePasses, BeginRun, WriteNext, RemoveOld, RenameNext, PruneOne, PruneEnds,
               CollectAndSave, RunEnds, Ends, archiveVars, ArchiveTypeOK
<1>2. CASE time' = time BY <1>2 DEF Retained, Day
<1>3. CASE time \in Nat /\ time' = time + 1
  <2>1. Day(time) \in Nat /\ Day(time + 1) \in Nat /\ Day(time) <= Day(time + 1)
    BY <1>3, DayBounds, DayMonotone
  <2>2. d > Day(time + 1) - DailyDays BY <1>3 DEF Retained, Day
  <2>3. d \in Nat /\ DailyDays \in Nat BY Times, ArchiveAssumption
  <2> HIDE DEF Day
  <2>4. d > Day(time) - DailyDays BY <2>1, <2>2, <2>3
  <2> QED BY <2>4 DEF Retained
<1> QED BY <1>1, <1>2, <1>3

\* Only a run that saves adds to what was seen, and only to its own day.
LEMMA SeenOnlyToday ==
    ASSUME ArchiveTypeOK, Clocked, CollectAndSave, NEW d \in Days
    PROVE  SeenOn(d) \subseteq SeenOn(d)' /\ (d # Day(time) => SeenOn(d)' = SeenOn(d))
<1>1. PICK saw \in SUBSET (Configs \X Origins) :
         observed' = observed \cup {<<started, p[2], p[1]>> : p \in saw}
  BY DEF CollectAndSave
<1>2. observed \subseteq observed' BY <1>1
<1>3. SeenOn(d) \subseteq SeenOn(d)' BY <1>2 DEF SeenOn, Day
<1>4. ASSUME d # Day(time) PROVE SeenOn(d)' = SeenOn(d)
  <2>1. started = time BY DEF CollectAndSave, Clocked
  <2>2. \A p \in saw : Day(<<started, p[2], p[1]>>[1]) # d BY <1>4, <2>1
  <2>3. {x \in observed' : Day(x[1]) = d /\ x[3] \in Vpn}
           = {x \in observed : Day(x[1]) = d /\ x[3] \in Vpn}
    BY <1>1, <2>2
  <2> QED BY <2>3 DEF SeenOn, Day
<1> QED BY <1>3, <1>4

\* Every step keeps the archive.
LEMMA ArchiveStep ==
    ArchiveTypeOK /\ Clocked /\ Tells /\ Flow /\ DaysAreArchived /\ [ArchiveNext]_archiveVars => DaysAreArchived'
<1> SUFFICES ASSUME ArchiveTypeOK, Clocked, Tells, Flow, DaysAreArchived, [ArchiveNext]_archiveVars,
                    NEW d \in ranOn', d < stored'.day, Retained(d)'
             PROVE  files'[Daily(d)] = Whole(SeenOn(d)')
  BY DEF DaysAreArchived
<1>0. d \in Days
  <2>1. ArchiveTypeOK' BY TypeStep
  <2> QED BY <2>1 DEF ArchiveTypeOK
<1>1. Retained(d) BY <1>0, RetainedBefore
<1>2. CASE CollectAndSave
  <2>1. /\ stored'.day = Day(time) /\ started = time /\ ranOn' = ranOn \cup {Day(time)}
        /\ files' = files /\ stage = "collect"
    BY <1>2 DEF CollectAndSave, Clocked
  <2>2. time \in Nat /\ Day(time) \in Nat /\ d \in Nat BY <1>0, Times, DayBounds DEF ArchiveTypeOK
  <2>3. d \in ranOn /\ d <= stored.day
    BY <2>1, <2>2 DEF Clocked
  <2>4. files[Daily(d)] = Whole(SeenOn(d))
    <3>1. CASE d < stored.day BY <1>1, <2>3, <3>1 DEF DaysAreArchived
    <3>2. CASE ~ d < stored.day
      <4>0. stored.day \in Int BY Times DEF ArchiveTypeOK, Never
      <4>1. d = stored.day
        <5> HIDE DEF Day
        <5> QED BY <2>2, <2>3, <3>2, <4>0
      <4>2. Over BY <2>1, <2>2, <4>1 DEF Over, Never
      <4> QED BY <1>1, <2>1, <4>1, <4>2 DEF Flow
    <3> QED BY <3>1, <3>2
  <2>5. SeenOn(d)' = SeenOn(d)
    <3>1. d # Day(time) BY <2>1, <2>2
    <3> QED BY <1>0, <1>2, <3>1, SeenOnlyToday
  <2> QED BY <2>1, <2>4, <2>5
<1>3. CASE ~CollectAndSave
  <2>1. UNCHANGED <<stored, observed, ranOn>>
    BY <1>3 DEF ArchiveNext, TimePasses, BeginRun, WriteNext, RemoveOld, RenameNext, PruneOne, PruneEnds,
                RunEnds, Ends, archiveVars
  <2>2. SeenOn(d)' = SeenOn(d) BY <2>1 DEF SeenOn
  <2>3. files[Daily(d)] = Whole(SeenOn(d)) BY <1>1, <2>1 DEF DaysAreArchived
  <2>4. d # stored.day BY <1>0, <2>1, Times
  <2>5. files'[Daily(d)] = files[Daily(d)] BY <1>0, <1>1, <2>4, ArchiveChanges
  <2> QED BY <2>2, <2>3, <2>5
<1> QED BY <1>2, <1>3

\* Every step keeps what is known of the directories of unfinished snapshots.
LEMMA LeftStep == ArchiveTypeOK /\ Clocked /\ Flow /\ Leftovers /\ [ArchiveNext]_archiveVars => Leftovers'
<1> SUFFICES ASSUME ArchiveTypeOK, Clocked, Flow, Leftovers, [ArchiveNext]_archiveVars PROVE Leftovers' OBVIOUS
<1>0. Flow /\ (published # Never => stage \in {"report", "down"}) BY DEF Flow
<1>1. CASE TimePasses
  <2>1. Over => Over'
    <3>1. time \in Nat /\ time' = time + 1 /\ stored' = stored BY <1>1, Times DEF TimePasses, ArchiveTypeOK
    <3>2. Day(time) \in Nat /\ Day(time + 1) \in Nat /\ Day(time) <= Day(time + 1)
      BY <3>1, DayBounds, DayMonotone
    <3>3. stored.day \in Int BY Times DEF ArchiveTypeOK, Never
    <3>4. Day(time') = Day(time)' BY DEF Day
    <3>5. Day(time') = Day(time + 1) BY <3>1
    <3> HIDE DEF Day
    <3> QED BY <3>1, <3>2, <3>3, <3>4, <3>5 DEF Over
  <2>2. stage' = "down" /\ UNCHANGED <<stored, nexts, published, target>> BY <1>1 DEF TimePasses
  <2> QED BY <1>1, <2>1, <2>2 DEF Leftovers, Publishing, NothingIsLeftBehind, TimePasses
<1>2. CASE BeginRun
  <2>1. UNCHANGED <<stored, nexts, time>> /\ published' = Never BY <1>2 DEF BeginRun
  <2>2. Over' = Over BY <2>1 DEF Over, Day
  <2>3. CASE stored.day \notin {Never, Day(time)}
    <3>1. stage' = "write" /\ target' = Daily(stored.day) BY <1>2, <2>3 DEF BeginRun
    <3>2. target' # All BY <3>1, TheRoots
    <3> QED BY <2>1, <2>2, <3>1, <3>2 DEF Leftovers, Publishing, NothingIsLeftBehind
  <2>4. CASE stored.day \in {Never, Day(time)}
    <3>1. stage' = "collect" BY <1>2, <2>4 DEF BeginRun
    <3>2. ~Over
      <4>1. Day(time) \in Nat BY Times, DayBounds DEF ArchiveTypeOK
      <4> HIDE DEF Day
      <4> QED BY <2>4, <4>1 DEF Over
    <3> QED BY <2>1, <2>2, <3>1, <3>2 DEF Leftovers, Publishing, NothingIsLeftBehind
  <2> QED BY <2>3, <2>4
<1>3. ASSUME NEW fs, NEW ns, Ends(fs, ns),
             \/ ns \subseteq nexts
             \/ ns \subseteq nexts \cup {target} /\ Publishing
      PROVE  Leftovers'
  <2>1. stage' = "down" /\ nexts' = ns /\ UNCHANGED <<time, stored, published>> /\ ~Publishing'
    BY <1>3 DEF Ends, Publishing
  <2>2. Over' = Over BY <2>1 DEF Over, Day
  <2>3. nexts' \subseteq {Temporary, All, Daily(stored.day)}
    BY <1>3, <2>1 DEF Leftovers, Flow
  <2>4. Daily(stored.day) \in nexts' => Over
    BY <1>3, <2>1, TheRoots DEF Leftovers, Flow
  <2>5. published' # Never => nexts' = {}
    BY <1>3, <2>1 DEF Leftovers, Flow, Publishing, NothingIsLeftBehind
  <2> QED BY <2>1, <2>2, <2>3, <2>4, <2>5 DEF Leftovers, NothingIsLeftBehind
<1>4. CASE WriteNext
  <2>1. Publishing BY <1>4 DEF WriteNext, Publishing
  <2>2. CASE \E ns \in {nexts \ {target}, nexts \cup {target}} : Ends(files, ns)
    BY <1>3, <2>1, <2>2
  <2>3. CASE /\ stage' = "replace"
             /\ nexts' = nexts \cup {target}
             /\ UNCHANGED <<time, stored, files, started, entries, target, observed, ranOn, published>>
    <3>1. Over' = Over BY <2>3 DEF Over, Day
    <3>2. published' = Never BY <1>4, <2>3 DEF Flow, WriteNext
    <3>3. nexts' \subseteq {Temporary, All, Daily(stored.day)} BY <2>1, <2>3 DEF Leftovers, Flow
    <3>4. Daily(stored.day) \in nexts' => Over /\ target = Daily(stored.day)
      BY <1>4, <2>1, <2>3, TheRoots DEF Leftovers, Flow, WriteNext
    <3>5. target = All => Temporary \notin nexts' BY <2>1, <2>3, TheRoots DEF Leftovers
    <3> QED BY <2>3, <3>1, <3>2, <3>3, <3>4, <3>5 DEF Leftovers, Publishing, NothingIsLeftBehind
  <2> QED BY <1>4, <2>2, <2>3 DEF WriteNext
<1>5. CASE RemoveOld
  <2>1. CASE \E fs, ns : ns \in {nexts, nexts \ {target}} /\ Ends(fs, ns) BY <1>3, <2>1
  <2>2. CASE stage' = "rename"
             /\ UNCHANGED <<time, stored, nexts, started, entries, target, observed, ranOn, published>>
    <3>1. Over' = Over BY <2>2 DEF Over, Day
    <3>2. Publishing /\ Publishing' BY <1>5, <2>2 DEF RemoveOld, Publishing
    <3>3. stage = "replace" BY <1>5 DEF RemoveOld
    <3> QED BY <2>2, <3>1, <3>2, <3>3 DEF Leftovers, NothingIsLeftBehind
  <2> QED BY <1>5, <2>1, <2>2 DEF RemoveOld
<1>6. CASE RenameNext
  <2>1. CASE Ends(files, nexts) BY <1>3, <2>1
  <2>2. CASE /\ nexts' = nexts \ {target}
             /\ AfterPublish
             /\ UNCHANGED <<time, stored, started, entries, observed, ranOn>>
    <3>0. stage = "rename" /\ Publishing /\ published = Never
      BY <1>6 DEF RenameNext, Publishing, Flow
    <3>1. Over' = Over BY <2>2 DEF Over, Day
    <3>2. Daily(stored.day) \notin nexts' BY <2>2, <3>0 DEF Leftovers
    <3>3. nexts' \subseteq {Temporary, All} BY <2>2, <3>2 DEF Leftovers
    <3>4. CASE target = Daily(stored.day)
      <4>1. stage' = "prune" /\ UNCHANGED published BY <2>2, <3>4 DEF AfterPublish, Daily
      <4> QED BY <2>2, <3>0, <3>2, <3>3, <4>1 DEF Leftovers, Publishing, NothingIsLeftBehind
    <3>5. CASE target = Temporary
      <4>1. stage' = "write" /\ UNCHANGED published BY <2>2, <3>5 DEF AfterPublish, Temporary
      <4>2. Temporary \notin nexts' BY <2>2, <3>5
      <4> QED BY <2>2, <3>0, <3>2, <3>3, <4>1, <4>2 DEF Leftovers, Publishing, NothingIsLeftBehind
    <3>6. CASE target = All
      <4>1. stage' = "report" BY <2>2, <3>6 DEF AfterPublish, All
      <4>2. Temporary \notin nexts BY <3>0, <3>6 DEF Leftovers
      <4>3. nexts' = {} BY <2>2, <3>3, <3>6, <4>2
      <4> QED BY <2>2, <4>1, <4>3 DEF Leftovers, Publishing, NothingIsLeftBehind
    <3> QED BY <3>0, <3>4, <3>5, <3>6 DEF Flow
  <2> QED BY <1>6, <2>1, <2>2 DEF RenameNext
<1>7. CASE PruneOne
  <2>1. CASE \E fs : Ends(fs, nexts) BY <1>3, <2>1
  <2>2. CASE UNCHANGED <<time, stored, nexts, stage, started, entries, target, observed, ranOn, published>>
    BY <2>2 DEF Leftovers, Publishing, NothingIsLeftBehind, Over, Day
  <2> QED BY <1>7, <2>1, <2>2 DEF PruneOne
<1>8. CASE PruneEnds
  <2>1. stage = "prune" /\ stage' = "collect" /\ UNCHANGED <<time, stored, nexts, published>>
    BY <1>8 DEF PruneEnds
  <2> QED BY <2>1 DEF Leftovers, Publishing, NothingIsLeftBehind, Over, Day
<1>9. CASE CollectAndSave
  <2>1. /\ stage = "collect" /\ stage' = "write" /\ target' = Temporary
        /\ nexts' = nexts /\ published' = published
    BY <1>9 DEF CollectAndSave, Temporary
  <2>2. published = Never BY <2>1 DEF Flow
  <2>3. nexts \subseteq {Temporary, All} BY <2>1 DEF Leftovers, Publishing
  <2> QED BY <2>1, <2>2, <2>3, TheRoots DEF Leftovers, NothingIsLeftBehind
<1>10. CASE RunEnds BY <1>3, <1>10 DEF RunEnds
<1>11. CASE UNCHANGED archiveVars
  BY <1>11 DEF archiveVars, Leftovers, Publishing, NothingIsLeftBehind, Over, Day
<1> QED BY <1>1, <1>2, <1>4, <1>5, <1>6, <1>7, <1>8, <1>9, <1>10, <1>11 DEF ArchiveNext

\* Every step keeps what a complete run has published.
LEMMA PublishStep ==
    ArchiveTypeOK /\ Clocked /\ Tells /\ Flow /\ Publishes /\ [ArchiveNext]_archiveVars => Publishes'
<1> SUFFICES ASSUME ArchiveTypeOK, Clocked, Tells, Flow, Publishes, [ArchiveNext]_archiveVars PROVE Publishes' OBVIOUS
<1> USE DEF CompleteRunPublishes, TodayLines, RollingLines, Temporary, All
<1>0. published # Never => stage \in {"report", "down"} BY DEF Flow
<1>1. ASSUME UNCHANGED <<stored, observed, files>>, ~Publishing', published' \in {published, Never}
      PROVE  Publishes'
  BY <1>1 DEF Publishes, Day
<1>2. ASSUME ~Publishing', published' = Never PROVE Publishes'
  BY <1>2 DEF Publishes
<1>3. ASSUME NEW fs, NEW ns, Ends(fs, ns), fs = files \/ published = Never PROVE Publishes'
  BY <1>1, <1>2, <1>3 DEF Ends, Publishing
<1>4. CASE TimePasses BY <1>1, <1>4 DEF TimePasses, Publishing
<1>5. CASE BeginRun
  <2>1. published' = Never BY <1>5 DEF BeginRun
  <2>2. Publishing' => target' = Daily(stored.day) BY <1>5 DEF BeginRun, Publishing
  <2>3. Daily(stored.day) # <<"all", 0>> BY DEF Daily
  <2> QED BY <2>1, <2>2, <2>3 DEF Publishes
<1>6. CASE WriteNext
  <2>1. CASE \E ns : Ends(files, ns) BY <1>3, <2>1
  <2>2. CASE UNCHANGED <<time, stored, files, started, entries, target, observed, ranOn, published>>
    <3>1. Publishing /\ published' = Never BY <1>0, <1>6, <2>2 DEF WriteNext, Publishing
    <3> QED BY <2>2, <3>1 DEF Publishes, Day
  <2> QED BY <1>6, <2>1, <2>2 DEF WriteNext
<1>7. CASE RemoveOld
  <2>0. Publishing /\ published = Never BY <1>0, <1>7 DEF RemoveOld, Publishing
  <2>1. CASE \E fs, ns : Ends(fs, ns) BY <1>3, <2>0, <2>1
  <2>2. CASE /\ files' = [files EXCEPT ![target] = NoFiles]
             /\ UNCHANGED <<time, stored, nexts, started, entries, target, observed, ranOn, published>>
    <3>1. target = <<"all", 0>> => files'[<<"temporary", 0>>] = files[<<"temporary", 0>>]
      BY <2>2, TheRoots DEF ArchiveTypeOK
    <3> QED BY <2>0, <2>2, <3>1 DEF Publishes, Day
  <2> QED BY <1>7, <2>1, <2>2 DEF RemoveOld
<1>8. CASE RenameNext
  <2>0. stage = "rename" /\ Publishing /\ published = Never
    BY <1>0, <1>8 DEF RenameNext, Publishing
  <2>1. CASE Ends(files, nexts) BY <1>3, <2>1
  <2>2. CASE /\ files' = [files EXCEPT ![target] = Whole(Content(entries, target, started))]
             /\ AfterPublish
             /\ UNCHANGED <<time, stored, started, entries, observed, ranOn>>
    <3>0. files \in [Roots -> [state : {"absent", "partial", "whole"}, lines : SUBSET Lines]]
      BY DEF ArchiveTypeOK, Lines
    <3>1. CASE target = Daily(stored.day)
      <4>1. stage' = "prune" /\ UNCHANGED published BY <2>2, <3>1 DEF AfterPublish, Daily
      <4> QED BY <1>2, <2>0, <4>1 DEF Publishing
    <3>2. CASE target = Temporary /\ stored.day = Day(time)
      <4>1. published' = Never BY <2>0, <2>2, <3>2 DEF AfterPublish
      <4>2. files'[Temporary] = Whole(TodayLines)
        <5>1. Content(entries, Temporary, started) = TodayLines BY <2>0, <3>2, TemporaryContent
        <5>2. Temporary \in Roots BY TheRoots
        <5> HIDE DEF Temporary, TodayLines
        <5> QED BY <2>2, <3>0, <3>2, <5>1, <5>2
      <4>3. TodayLines' = TodayLines BY <2>2 DEF Day
      <4>4. files'[Temporary] = Whole(TodayLines') BY <4>2, <4>3
      <4>5. files'[Temporary] = Whole(TodayLines)' BY <4>4 DEF Whole
      <4> QED BY <4>1, <4>5 DEF Publishes
    <3>3. CASE target = All
      <4>1. stage' = "report" /\ published' = started BY <2>2, <3>3 DEF AfterPublish
      <4>2. files'[Temporary] = Whole(TodayLines)
        <5>1. files[Temporary] = Whole(TodayLines) BY <2>0, <3>3 DEF Publishes
        <5>2. Temporary \in Roots /\ target # Temporary BY <3>3, TheRoots
        <5> HIDE DEF Temporary, TodayLines, All
        <5> QED BY <2>2, <3>0, <5>1, <5>2
      <4>3. TodayLines' = TodayLines BY <2>2 DEF Day
      <4>4. ASSUME RollingDays <= DailyDays PROVE files'[All] = Whole(RollingLines(started))
        <5>1. Content(entries, All, started) = RollingLines(started) BY <2>0, <4>4, RollingContent
        <5>2. All \in Roots BY TheRoots
        <5> HIDE DEF All, RollingLines
        <5> QED BY <2>2, <3>0, <3>3, <5>1, <5>2
      <4>5. RollingLines(started)' = RollingLines(started) BY <2>2
      <4>6. files'[Temporary] = Whole(TodayLines') BY <4>2, <4>3
      <4>7. RollingDays <= DailyDays => files'[All] = Whole(RollingLines(published)')
        BY <2>2, <4>1, <4>4, <4>5
      <4> QED BY <4>1, <4>6, <4>7 DEF Publishes, Publishing
    <3> QED BY <2>0, <3>1, <3>2, <3>3 DEF Flow
  <2> QED BY <1>8, <2>1, <2>2 DEF RenameNext
<1>9. CASE PruneOne
  <2>0. stage = "prune" /\ published = Never BY <1>0, <1>9 DEF PruneOne
  <2> QED BY <1>2, <1>9, <2>0 DEF PruneOne, Ends, Publishing
<1>10. CASE PruneEnds
  <2>0. stage' = "collect" /\ published' = Never BY <1>0, <1>10 DEF PruneEnds
  <2> QED BY <1>2, <2>0 DEF Publishing
<1>11. CASE CollectAndSave
  <2>1. published' = Never /\ target' = Temporary BY <1>0, <1>11 DEF CollectAndSave
  <2> QED BY <2>1 DEF Publishes
<1>12. CASE RunEnds BY <1>3, <1>12 DEF RunEnds
<1>13. CASE UNCHANGED archiveVars BY <1>13 DEF archiveVars, Publishes, Publishing, Day
<1> QED BY <1>4, <1>5, <1>6, <1>7, <1>8, <1>9, <1>10, <1>11, <1>12, <1>13 DEF ArchiveNext

-----------------------------------------------------------------------------
(* The theorems.                                                           *)

\* The invariant holds at first ...
LEMMA ArchiveStarts == ArchiveInit => ArchiveInv
<1> SUFFICES ASSUME ArchiveInit PROVE ArchiveInv OBVIOUS
<1>1. ArchiveTypeOK
  <2>1. 0 \in Time BY Times DEF Time
  <2>2. Empty \in Entries BY DEF Empty, Entries
  <2>3. files \in [Roots -> [state : {"absent", "partial", "whole"}, lines : SUBSET Lines]]
    BY DEF ArchiveInit, NoFiles
  <2> QED BY <2>1, <2>2, <2>3, TheRoots DEF ArchiveInit, ArchiveTypeOK, Lines
<1>2. Clocked
  <2>1. Day(time) \in Nat BY Times, DayBounds DEF ArchiveTypeOK, ArchiveInit
  <2>2. stored.day = Never /\ observed = {} /\ ranOn = {} /\ stage = "down" BY DEF ArchiveInit
  <2> HIDE DEF Day
  <2> QED BY <2>1, <2>2 DEF Clocked, Never
<1>3. Tells
  <2>1. \A p \in Configs \X Origins : stored.entries[p] = Never BY DEF ArchiveInit, Empty
  <2> QED BY <2>1 DEF ArchiveInit, Tells
<1>4. Flow /\ Leftovers /\ DaysAreArchived /\ Publishes
  BY DEF ArchiveInit, Flow, Leftovers, DaysAreArchived, Publishes, Publishing, NothingIsLeftBehind,
         CompleteRunPublishes
<1> QED BY <1>1, <1>2, <1>3, <1>4 DEF ArchiveInv

\* ... and every step keeps it.
LEMMA ArchiveSteps == ArchiveInv /\ [ArchiveNext]_archiveVars => ArchiveInv'
BY TypeStep, StoreStep, FlowStep, LeftStep, ArchiveStep, PublishStep DEF ArchiveInv

\* Hence it always holds.
THEOREM ArchiveInvariant == ArchiveSpec => []ArchiveInv
BY ArchiveStarts, ArchiveSteps, PTL DEF ArchiveSpec

\* No day that had a run is lost: it is archived with what was seen on it, for every
\* length of a day, retention and sequence of crashes (rollover, internal/app/collect.go).
THEOREM NoDayIsLost == ArchiveSpec => [](ArchiveTypeOK /\ DaysAreArchived)
<1>1. ArchiveInv => ArchiveTypeOK /\ DaysAreArchived BY DEF ArchiveInv
<1> QED BY <1>1, ArchiveInvariant, PTL

\* A complete run leaves outputs that say what was seen today and in the rolling
\* window (PublishDaily, PublishRolling, internal/output/archive.go).
THEOREM CompleteRunsPublish == ArchiveSpec => []CompleteRunPublishes
<1>1. ArchiveInv => CompleteRunPublishes BY DEF ArchiveInv, Publishes
<1> QED BY <1>1, ArchiveInvariant, PTL

\* A complete run leaves no directory of an unfinished snapshot (Publish,
\* internal/output/snapshot.go).
THEOREM NothingLeft == ArchiveSpec => []NothingIsLeftBehind
<1>1. ArchiveInv => NothingIsLeftBehind BY DEF ArchiveInv, Leftovers
<1> QED BY <1>1, ArchiveInvariant, PTL

\* An archived day is final: only the retention removes it (PruneDaily,
\* internal/output).
THEOREM ArchiveIsFinal == ArchiveSpec => ArchivedDaysStay
<1> DEFINE Stay == \A d \in Days : d < stored.day /\ files[Daily(d)].state = "whole" =>
                      files'[Daily(d)] = files[Daily(d)] \/ ~Retained(d)
<1>1. ArchiveInv /\ [ArchiveNext]_archiveVars => [Stay]_files
  <2> SUFFICES ASSUME ArchiveInv, [ArchiveNext]_archiveVars, NEW d \in Days, d < stored.day
               PROVE  files'[Daily(d)] = files[Daily(d)] \/ ~Retained(d)
    OBVIOUS
  <2>1. d # stored.day BY Times
  <2> QED BY <2>1, ArchiveChanges DEF ArchiveInv
<1> HIDE DEF Stay
<1>2. ArchiveSpec => [][Stay]_files BY <1>1, ArchiveInvariant, PTL DEF ArchiveSpec
<1> QED BY <1>2 DEF Stay, ArchivedDaysStay
-----------------------------------------------------------------------------
(* The archive of days.                                                    *)

\* What there is of a day in the archive.
ArchiveOf(d) == IF files[Daily(d)].state = "whole" THEN {files[Daily(d)].lines} ELSE {}

\* Replacing the snapshot at a root other than those of the days leaves the archive, ...
LEMMA OtherRoots ==
    ASSUME ArchiveTypeOK, NEW r \in Roots, r \in {Temporary, All}, NEW x, NEW d \in Days,
           files' = [files EXCEPT ![r] = x]
    PROVE  ArchiveOf(d)' = ArchiveOf(d)
<1>1. Daily(d) # r /\ Daily(d) \in Roots BY TheRoots
<1>2. files'[Daily(d)] = files[Daily(d)] BY <1>1 DEF ArchiveTypeOK
<1> QED BY <1>2 DEF ArchiveOf, Daily

\* ... and at that of a day leaves the other days.
LEMMA OneRoot ==
    ASSUME ArchiveTypeOK, NEW e \in Days, NEW x, files' = [files EXCEPT ![Daily(e)] = x]
    PROVE  [d \in Days |-> ArchiveOf(d)]'
              = [[d \in Days |-> ArchiveOf(d)] EXCEPT ![e] = IF x.state = "whole" THEN {x.lines} ELSE {}]
<1>1. Daily(e) \in Roots BY TheRoots
<1>2. files'[Daily(e)] = x BY <1>1 DEF ArchiveTypeOK
<1>3. ASSUME NEW d \in Days, d # e PROVE files'[Daily(d)] = files[Daily(d)]
  <2>1. Daily(d) # Daily(e) /\ Daily(d) \in Roots BY <1>3, TheRoots
  <2> QED BY <1>1, <2>1 DEF ArchiveTypeOK
<1>4. ArchiveOf(e)' = IF x.state = "whole" THEN {x.lines} ELSE {} BY <1>2 DEF ArchiveOf, Daily
<1>5. \A d \in Days : d # e => ArchiveOf(d)' = ArchiveOf(d) BY <1>3 DEF ArchiveOf, Daily
<1> QED BY <1>4, <1>5

\* The runs keep an archive of days: each step of a run is one of the archive's or
\* changes nothing that the archive has.
THEOREM DaysAreKept == ArchiveSpec => ImplementsDayArchive
<1> DEFINE S == [d \in Days |-> SeenOn(d)]
           A == [d \in Days |-> ArchiveOf(d)]
<1>0. [d \in Days |-> IF files[Daily(d)].state = "whole" THEN {files[Daily(d)].lines} ELSE {}] = A
  BY DEF ArchiveOf
<1>1. ArchiveInit => Archive!SInit
  <2> SUFFICES ASSUME ArchiveInit PROVE Archive!SInit OBVIOUS
  <2>1. \A d \in Days : SeenOn(d) = {} BY DEF ArchiveInit, SeenOn
  <2>2. \A d \in Days : ArchiveOf(d) = {} BY TheRoots DEF ArchiveInit, ArchiveOf, NoFiles
  <2>3. Day(time) = 0
    <3>1. time = 0 /\ DayLength \in Nat \ {0} BY ArchiveAssumption DEF ArchiveInit
    <3> QED BY <3>1 DEF Day
  <2> QED BY <1>0, <2>1, <2>2, <2>3 DEF ArchiveInit, Never, Archive!SInit
<1>2. ArchiveInv /\ [ArchiveNext]_archiveVars => [Archive!SNext]_(Archive!svars)
  <2> SUFFICES ASSUME ArchiveInv, [ArchiveNext]_archiveVars
               PROVE  Archive!SNext \/ UNCHANGED <<S, A, stored.day, Day(time)>>
    BY <1>0 DEF Archive!svars, ArchiveOf
  <2>0. ArchiveTypeOK /\ Clocked /\ Tells /\ Flow BY DEF ArchiveInv
  <2>1. time \in Nat /\ Day(time) \in Nat /\ Day(time) \in Days
        /\ stored.day \in Days \cup {Never} /\ DailyDays \in Nat
    BY <2>0, Times, DayBounds, ClockDays, ArchiveAssumption DEF ArchiveTypeOK
  <2>2. Over => stored.day \in Days /\ Archive!Over BY <2>1 DEF Over, Archive!Over
  <2>3. \A d \in Days : Archive!Retained(d) <=> Retained(d) BY DEF Archive!Retained, Retained
  <2>4. ASSUME UNCHANGED <<observed, files>> PROVE S' = S /\ A' = A
    BY <2>4 DEF SeenOn, ArchiveOf, Day, Daily
  <2>5. CASE TimePasses
    <3>1. UNCHANGED <<observed, files, stored>> /\ time' = time + 1 BY <2>5 DEF TimePasses
    <3>2. Day(time + 1) \in Nat /\ Day(time) <= Day(time + 1) /\ Day(time)' = Day(time + 1)
      BY <2>1, <3>1, DayBounds, DayMonotone DEF Day
    <3>3. Day(time)' > Day(time) \/ Day(time)' = Day(time)
      <4> HIDE DEF Day
      <4> QED BY <2>1, <3>2
    <3>4. S' = S /\ A' = A BY <2>4, <3>1
    <3> QED BY <3>1, <3>3, <3>4 DEF Archive!SNext, Archive!Pass, ArchiveOf
  <2>6. CASE BeginRun \/ WriteNext \/ PruneEnds \/ RunEnds \/ UNCHANGED archiveVars
    <3>1. UNCHANGED <<observed, files, stored, time>>
      BY <2>6 DEF BeginRun, WriteNext, PruneEnds, RunEnds, Ends, archiveVars
    <3>2. S' = S /\ A' = A BY <2>4, <3>1
    <3> QED BY <3>1, <3>2 DEF Day
  <2>7. ASSUME Publishing, UNCHANGED <<observed, stored, time>>,
               NEW x, files' = [files EXCEPT ![target] = x],
               \/ x = files[target]
               \/ x.state # "whole"
               \/ target = Daily(stored.day) => x = Whole(SeenOn(stored.day))
        PROVE  Archive!SNext \/ UNCHANGED <<S, A, stored.day, Day(time)>>
    <3>1. S' = S BY <2>7 DEF SeenOn, Day
    <3>2. CASE target # Daily(stored.day)
      <4>1. target \in {Temporary, All} BY <2>0, <2>7, <3>2 DEF Flow
      <4>2. target \in Roots BY <2>0 DEF ArchiveTypeOK
      <4>3. \A d \in Days : ArchiveOf(d)' = ArchiveOf(d) BY <2>0, <2>7, <4>1, <4>2, OtherRoots
      <4>4. A' = A BY <4>3
      <4> QED BY <2>7, <3>1, <4>4 DEF Day
    <3>3. CASE target = Daily(stored.day)
      <4>1. Over /\ stored.day \in Days
        <5>1. target \notin {Temporary, All} BY <3>3, TheRoots
        <5> QED BY <2>0, <2>2, <2>7, <5>1 DEF Flow
      <4> DEFINE y == IF x.state = "whole" THEN {x.lines} ELSE {}
      <4>2. A' = [A EXCEPT ![stored.day] = y] BY <2>0, <2>7, <3>3, <4>1, OneRoot
      <4>3. CASE x = files[target]
        <5>1. y = A[stored.day] BY <3>3, <4>1, <4>3 DEF ArchiveOf
        <5>2. A' = A BY <4>1, <4>2, <5>1
        <5> QED BY <2>7, <3>1, <5>2 DEF Day
      <4>4. CASE x.state # "whole"
        <5>1. A' = [A EXCEPT ![stored.day] = {}] BY <4>2, <4>4
        <5>2. Archive!Remove
          BY <2>2, <2>7, <3>1, <4>1, <5>1 DEF Archive!Remove, ArchiveOf, Day
        <5> QED BY <5>2 DEF Archive!SNext
      <4>5. CASE x = Whole(SeenOn(stored.day))
        <5>1. y = {SeenOn(stored.day)} BY <4>5 DEF Whole
        <5>2. A' = [A EXCEPT ![stored.day] = {S[stored.day]}] BY <4>1, <4>2, <5>1
        <5>3. Archive!Fill
          BY <2>2, <2>7, <3>1, <4>1, <5>2 DEF Archive!Fill, ArchiveOf, Day
        <5> QED BY <5>3 DEF Archive!SNext
      <4> QED BY <2>7, <3>3, <4>3, <4>4, <4>5
    <3> QED BY <3>2, <3>3
  <2>8. CASE RemoveOld
    <3>1. PICK x \in {files[target], Torn(files[target]), NoFiles} :
             files' = [files EXCEPT ![target] = x]
      BY <2>8 DEF RemoveOld, Ends
    <3>2. UNCHANGED <<observed, stored, time>> /\ Publishing
      BY <2>8 DEF RemoveOld, Ends, Publishing
    <3>3. x = files[target] \/ x.state # "whole" BY DEF Torn, NoFiles, Partial
    <3> QED BY <2>7, <3>1, <3>2, <3>3
  <2>9. CASE RenameNext
    <3>1. UNCHANGED <<observed, stored, time>> /\ Publishing /\ entries = stored.entries
      BY <2>0, <2>9 DEF RenameNext, Ends, Publishing, Clocked
    <3>2. CASE files' = files
      <4>1. S' = S /\ A' = A BY <2>4, <3>1, <3>2
      <4> QED BY <3>1, <4>1 DEF Day
    <3>3. CASE files' = [files EXCEPT ![target] = Whole(Content(entries, target, started))]
      <4>1. target = Daily(stored.day) => stored.day # Never
        <5>1. target = Daily(stored.day) => target \notin {Temporary, All} BY TheRoots
        <5> QED BY <2>0, <3>1, <5>1 DEF Flow, Over
      <4>2. target = Daily(stored.day) => Content(entries, target, started) = SeenOn(stored.day)
        BY <2>0, <3>1, <4>1, DailyContent
      <4> QED BY <2>7, <3>1, <3>3, <4>2
    <3> QED BY <2>9, <3>2, <3>3 DEF RenameNext, Ends
  <2>10. CASE PruneOne
    <3>1. PICK d \in Outdated, x \in {NoFiles, Partial} : files' = [files EXCEPT ![Daily(d)] = x]
      BY <2>10 DEF PruneOne, Ends
    <3>2. UNCHANGED <<observed, stored, time>> /\ stage = "prune" BY <2>10 DEF PruneOne, Ends
    <3>3. d \in Days /\ ~Retained(d) BY <2>0, <3>2, OutdatedGoes
    <3>4. x.state # "whole" BY DEF NoFiles, Partial
    <3>5. S' = S BY <3>2 DEF SeenOn, Day
    <3>6. A' = [A EXCEPT ![d] = {}]
      <4>1. A' = [A EXCEPT ![d] = IF x.state = "whole" THEN {x.lines} ELSE {}]
        BY <2>0, <3>1, <3>3, OneRoot
      <4> QED BY <3>4, <4>1
    <3>7. Archive!Prune(d)
      BY <2>3, <3>2, <3>3, <3>5, <3>6 DEF Archive!Prune, ArchiveOf, Day
    <3> QED BY <3>3, <3>7 DEF Archive!SNext
  <2>11. CASE CollectAndSave
    <3>1. stored'.day = Day(time) /\ UNCHANGED <<files, time>> /\ stage = "collect"
      BY <2>0, <2>11 DEF CollectAndSave, Clocked
    <3>2. A' = A BY <3>1 DEF ArchiveOf, Daily
    <3>3. \A d \in Days : SeenOn(d) \subseteq SeenOn(d)' /\ (d # Day(time) => SeenOn(d)' = SeenOn(d))
      BY <2>0, <2>11, SeenOnlyToday
    <3>4. S[Day(time)] \subseteq S'[Day(time)] /\ \A d \in Days \ {Day(time)} : S'[d] = S[d]
      BY <2>1, <3>3
    <3>5. Archive!Over => A[stored.day] = {S[stored.day]} \/ ~Archive!Retained(stored.day)
      <4> SUFFICES ASSUME Archive!Over PROVE A[stored.day] = {S[stored.day]} \/ ~Retained(stored.day)
        BY <2>3 DEF Archive!Over
      <4>1. stored.day \in Days /\ Over BY <2>1, Times DEF Archive!Over, Over, Never
      <4>2. files[Daily(stored.day)] = Whole(SeenOn(stored.day)) \/ ~Retained(stored.day)
        BY <2>0, <3>1, <4>1 DEF Flow
      <4> QED BY <4>1, <4>2 DEF ArchiveOf, Whole
    <3>6. Archive!Collect
      BY <3>1, <3>2, <3>4, <3>5 DEF Archive!Collect, ArchiveOf, Day
    <3> QED BY <3>6 DEF Archive!SNext
  <2> QED BY <2>5, <2>6, <2>8, <2>9, <2>10, <2>11 DEF ArchiveNext
<1>3. QED BY <1>1, <1>2, ArchiveInvariant, PTL DEF ArchiveSpec, ImplementsDayArchive, Archive!SSpec
==============================================================================
