---------------------------- MODULE DailyArchive ----------------------------
(***************************************************************************)
(* The store of configs (internal/state/store.go), its rollover from day   *)
(* to day (internal/app/collect.go) and what is published from it          *)
(* (internal/output): one run of the collector after another, any of which *)
(* may crash or fail at any step.                                          *)
(*                                                                         *)
(* Times are numbers of units, DayLength of them a day, and 0 is in the    *)
(* first day.  A snapshot is the set of its lines; a line is the list it   *)
(* is in, the source it was seen at and the config.                        *)
(***************************************************************************)
EXTENDS Integers, FiniteSets

CONSTANTS Configs,      \* fingerprints of configs of a known protocol
          Vpn,          \* those for which isVPNProtocol holds
          Origins,      \* the keys of Observations
          DayLength,    \* units of time in a day
          DailyDays,    \* settings.Retention.DailyDays
          RollingDays,  \* settings.Retention.RollingDays
          MaxTime       \* bound on the time

\* LoadCollectorSettings refuses retentions below 1.
ASSUME ArchiveAssumption ==
    /\ Vpn \subseteq Configs
    /\ DayLength \in Nat \ {0}
    /\ DailyDays \in Nat \ {0}
    /\ RollingDays \in Nat \ {0}
    /\ MaxTime \in Nat

Time == 0 .. MaxTime
Day(t) == t \div DayLength
Days == 0 .. Day(MaxTime)
Never == -1

\* The observations of an entry; one without any is not in the map.
Entries == [Configs \X Origins -> Time \cup {Never}]

Roots == {<<"temporary", 0>>, <<"all", 0>>} \cup {<<"daily", d>> : d \in Days}
Daily(d) == <<"daily", d>>
NoFiles  == [state |-> "absent", lines |-> {}]
Partial == [state |-> "partial", lines |-> {}]
Torn(f) == IF f = NoFiles THEN NoFiles ELSE Partial
Whole(lines) == [state |-> "whole", lines |-> lines]

VARIABLES
    time,    \* the time, which runs between runs
    stored,  \* configs.json: the current day and the entries
    files,   \* what is at each root of the outputs and the archive
    nexts,   \* the roots for which there is a directory root.next
    \* the process
    stage,   \* "down", or what the run does next
    started, \* the time the run started, which it uses throughout
    entries, \* the store's entries
    target,  \* the root that is being published
    \* history
    observed, \* the observations that were saved: time, origin and config
    ranOn,   \* the days that had a run that saved
    published \* the time of the last run, if it published all it had to

archiveVars == <<time, stored, files, nexts, stage, started, entries, target, observed, ranOn, published>>

Empty == [p \in Configs \X Origins |-> Never]

ArchiveInit == /\ time = 0
               /\ stored = [day |-> Never, entries |-> Empty]
               /\ files = [r \in Roots |-> NoFiles]
               /\ nexts = {}
               /\ stage = "down"
               /\ started = 0
               /\ entries = Empty
               /\ target = <<"all", 0>>
               /\ observed = {}
               /\ ranOn = {}
               /\ published = Never

-----------------------------------------------------------------------------
(* The operations on the store.                                            *)

\* Upsert of every config that the run saw at an origin.
Upserted(es, saw, t) == [p \in Configs \X Origins |-> IF p \in saw THEN t ELSE es[p]]

\* The entry's LastSeenAt is not before the given time.
SeenSince(es, c, before) == \E o \in Origins : es[<<c, o>>] # Never /\ es[<<c, o>>] >= before

\* Mutant: today is one of the days that entries are kept.
HorizonFromToday(t) == t - DayLength * (DailyDays - 1)

\* The time before which Collect forgets entries.
Horizon(t) == t - DayLength * DailyDays

\* Prune: entries last seen before the given time go.
AfterPrune(es, before) ==
    [p \in Configs \X Origins |-> IF SeenSince(es, p[1], before) THEN es[p] ELSE Never]

\* writeSnapshot: the lines for the observations from start up to and without end.
\* Only VPN configs enter the combined lists.
Snapshot(es, start, end, lists) ==
    {l \in lists \X Origins \X Configs :
        /\ es[<<l[3], l[2]>>] # Never
        /\ es[<<l[3], l[2]>>] >= start
        /\ es[<<l[3], l[2]>>] < end
        /\ l[1] = "combined" => l[3] \in Vpn}

\* What is written to a root: today's lists, the rolling list, whose window ends
\* with now, and an archived day's.
Content(es, root, t) ==
    CASE root[1] = "temporary" ->
            Snapshot(es, DayLength * Day(t), DayLength * (Day(t) + 1), {"combined", "protocols"})
      [] root[1] = "all" ->
            Snapshot(es, t + 1 - DayLength * RollingDays, t + 1, {"combined"})
      [] root[1] = "daily" ->
            Snapshot(es, DayLength * root[2], DayLength * (root[2] + 1), {"combined"})

\* Mutant: the cutoff is a day late.
CutoffLate(t) == Day(t) - DailyDays + 2

\* PruneDaily removes the archived days before this one.
Cutoff(t) == Day(t) - DailyDays + 1

-----------------------------------------------------------------------------
TimePasses == /\ stage = "down"
              /\ time < MaxTime
              /\ time' = time + 1
              /\ UNCHANGED <<stored, files, nexts, stage, started, entries, target, observed, ranOn, published>>

\* Mutant: every run publishes the day before.
BeginEveryRun ==
    /\ stage = "down"
    /\ started' = time
    /\ entries' = stored.entries
    /\ published' = Never
    /\ IF stored.day # Never /\ Day(time) > 0
       THEN stage' = "write" /\ target' = Daily(Day(time) - 1)
       ELSE stage' = "collect" /\ UNCHANGED target
    /\ UNCHANGED <<time, stored, files, nexts, observed, ranOn>>

\* Open, and the decision of rollover: a day that is over is published first.
BeginRun ==
    /\ stage = "down"
    /\ started' = time
    /\ entries' = stored.entries
    /\ published' = Never
    /\ IF stored.day \notin {Never, Day(time)}
       THEN stage' = "write" /\ target' = Daily(stored.day)
       ELSE stage' = "collect" /\ UNCHANGED target
    /\ UNCHANGED <<time, stored, files, nexts, observed, ranOn>>

\* The run ends with an error, or the process dies, leaving the outputs as given.
Ends(fs, ns) == /\ stage' = "down"
                /\ started' = 0
                /\ entries' = Empty
                /\ target' = <<"all", 0>>
                /\ files' = fs
                /\ nexts' = ns
                /\ UNCHANGED <<time, stored, observed, ranOn, published>>

\* Publish writes the new snapshot next to the root; the directory is removed when
\* that fails, and may stay when the process dies.
WriteNext ==
    /\ stage = "write"
    /\ \/ /\ stage' = "replace"
          /\ nexts' = nexts \cup {target}
          /\ UNCHANGED <<time, stored, files, started, entries, target, observed, ranOn, published>>
       \/ Ends(files, nexts \ {target})
       \/ Ends(files, nexts \cup {target})

\* Publish removes the old snapshot.  A failure or the end of the process in the
\* middle leaves part of it; after a failure the new one is removed too.
RemoveOld ==
    /\ stage = "replace"
    /\ \/ /\ stage' = "rename"
          /\ files' = [files EXCEPT ![target] = NoFiles]
          /\ UNCHANGED <<time, stored, nexts, started, entries, target, observed, ranOn, published>>
       \/ \E left \in {files[target], Torn(files[target])} :
             Ends([files EXCEPT ![target] = left], nexts \ {target})
       \/ \E left \in {files[target], Torn(files[target]), NoFiles} :
             Ends([files EXCEPT ![target] = left], nexts)

\* What the run does after a snapshot has been published.
AfterPublish ==
    CASE target[1] = "daily"     -> stage' = "prune" /\ UNCHANGED <<target, published>>
      [] target[1] = "temporary" -> /\ stage' = "write"
                                    /\ target' = <<"all", 0>>
                                    /\ UNCHANGED published
      [] target[1] = "all"       -> stage' = "report" /\ published' = started /\ UNCHANGED target

\* Mutant: the snapshot is copied to its root.
CopyNext ==
    /\ stage = "rename"
    /\ files' = [files EXCEPT ![target] = Whole(Content(entries, target, started))]
    /\ AfterPublish
    /\ UNCHANGED <<time, stored, nexts, started, entries, observed, ranOn>>

\* Publish renames the new snapshot to the root; when that fails it is left where
\* it is.
RenameNext ==
    /\ stage = "rename"
    /\ \/ /\ files' = [files EXCEPT ![target] = Whole(Content(entries, target, started))]
          /\ nexts' = nexts \ {target}
          /\ AfterPublish
          /\ UNCHANGED <<time, stored, started, entries, observed, ranOn>>
       \/ Ends(files, nexts)

Outdated == {d \in Days : d < Cutoff(started) /\ files[Daily(d)] # NoFiles}

\* PruneDaily removes the outdated days one by one, in some order.
PruneOne ==
    /\ stage = "prune"
    /\ \E d \in Outdated :
          \/ /\ files' = [files EXCEPT ![Daily(d)] = NoFiles]
             /\ UNCHANGED <<time, stored, nexts, stage, started, entries, target, observed, ranOn, published>>
          \/ Ends([files EXCEPT ![Daily(d)] = Partial], nexts)

PruneEnds ==
    /\ stage = "prune"
    /\ Outdated = {}
    /\ stage' = "collect"
    /\ UNCHANGED <<time, stored, files, nexts, started, entries, target, observed, ranOn, published>>

\* addConfigs for what was fetched, then Prune, SetCurrentDay and Save: the file is
\* replaced by a rename.
CollectAndSave ==
    /\ stage = "collect"
    /\ \E saw \in SUBSET (Configs \X Origins) :
          /\ entries' = AfterPrune(Upserted(entries, saw, started), Horizon(started))
          /\ observed' = observed \cup {<<started, p[2], p[1]>> : p \in saw}
    /\ stored' = [day |-> Day(started), entries |-> entries']
    /\ ranOn' = ranOn \cup {Day(started)}
    /\ stage' = "write"
    /\ target' = <<"temporary", 0>>
    /\ UNCHANGED <<time, files, nexts, started, published>>

\* The run is over; or it fails, or the process dies, where nothing is half done.
RunEnds == /\ stage \in {"collect", "prune", "report"}
           /\ Ends(files, nexts)

ArchiveNext == \/ TimePasses \/ BeginRun \/ WriteNext \/ RemoveOld \/ RenameNext \/ PruneOne
               \/ PruneEnds \/ CollectAndSave \/ RunEnds

ArchiveSpec == ArchiveInit /\ [][ArchiveNext]_archiveVars

-----------------------------------------------------------------------------
(* Properties.                                                             *)

\* The ranges of the variables.
ArchiveTypeOK ==
    /\ time \in Time
    /\ stored \in [day : Days \cup {Never}, entries : Entries]
    /\ files \in [Roots -> [state : {"absent", "partial", "whole"},
                            lines : SUBSET ({"combined", "protocols"} \X Origins \X Configs)]]
    /\ nexts \subseteq Roots
    /\ stage \in {"down", "write", "replace", "rename", "prune", "collect", "report"}
    /\ started \in Time
    /\ entries \in Entries
    /\ target \in Roots
    /\ observed \subseteq Time \X Origins \X Configs
    /\ ranOn \subseteq Days
    /\ published \in Time \cup {Never}

\* The VPN configs that saved runs saw on a day.
SeenOn(d) == {<<"combined", o[2], o[3]>> : o \in {x \in observed : Day(x[1]) = d /\ x[3] \in Vpn}}

Retained(d) == d > Day(time) - DailyDays

\* No day is lost: each day with a saved run, before the current one of the store
\* and within the retention, is archived with exactly what was seen on it, although
\* later runs overwrite the times of the observations the archive is made from.
DaysAreArchived ==
    \A d \in ranOn : d < stored.day /\ Retained(d) => files[Daily(d)] = Whole(SeenOn(d))

\* An archived day is final: once the store has moved to a later day, nothing but
\* the retention removes or changes it.
ArchivedDaysStay ==
    [][\A d \in Days : d < stored.day /\ files[Daily(d)].state = "whole" =>
          files'[Daily(d)] = files[Daily(d)] \/ ~Retained(d)]_files

\* The runs keep an archive of days: each day is archived before the next is collected,
\* with all that was seen on it, and its archive is final while it is retained, whichever
\* of the runs failed or died in between.  What is left of a snapshot is no archive.
Archive == INSTANCE DayArchive WITH
               Days    <- Days,
               Kept    <- DailyDays,
               seen    <- [d \in Days |-> SeenOn(d)],
               archive <- [d \in Days |-> IF files[Daily(d)].state = "whole"
                                          THEN {files[Daily(d)].lines} ELSE {}],
               day     <- stored.day,
               today   <- Day(time)

ImplementsDayArchive == Archive!SSpec

\* After a run that got to its end, the outputs are those of the last day and of
\* the last RollingDays, as the saved runs saw them; the store must not forget
\* entries before the rolling window does.
CompleteRunPublishes ==
    published # Never =>
        /\ files[<<"temporary", 0>>] =
              Whole({l \in {"combined", "protocols"} \X Origins \X Configs :
                       /\ \E t \in Time : Day(t) = stored.day /\ <<t, l[2], l[3]>> \in observed
                       /\ l[1] = "combined" => l[3] \in Vpn})
        /\ RollingDays <= DailyDays =>
              files[<<"all", 0>>] =
                 Whole({l \in {"combined"} \X Origins \X Vpn :
                          \E t \in Time : /\ <<t, l[2], l[3]>> \in observed
                                          /\ t > published - DayLength * RollingDays})

\* After such a run no directory of an unfinished snapshot is left, whatever the
\* runs before it left behind.
NothingIsLeftBehind == published # Never => nexts = {}
=============================================================================
