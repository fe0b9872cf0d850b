----------------------------- MODULE HealthScan -----------------------------
(***************************************************************************)
(* internal/health: the records of channels and sources in health.json,    *)
(* and the commands that check them, scan-channels, revive-channels and    *)
(* check-sources, one process after another.  A process may be cancelled   *)
(* or die at any step.                                                     *)
(*                                                                         *)
(* Each check is a Get of FetchClient, whose one caller is the scan; the   *)
(* providers make its result an error with a status, or a number of        *)
(* accepted configs.  The lists are gone through in the order of their     *)
(* files, which may be any.                                                *)
(***************************************************************************)
EXTENDS FetchClient

CONSTANTS Scan,         \* the goroutine that scans
          Channels,     \* the channels of channels.csv
          Sources,      \* the sources of sources.json
          DormantAfter, \* settings.Discovery.DormantAfterDays
          MaxClock      \* bound on the time

\* LoadCollectorSettings refuses a DormantAfterDays below 1.
ASSUME HealthAssumption ==
    /\ Callers = {Scan}
    /\ Limited = {Scan}
    /\ IsFiniteSet(Channels) /\ IsFiniteSet(Sources)
    /\ Channels \cap Sources = {}
    /\ MaxGets >= Cardinality(Channels \cup Sources)
    /\ DormantAfter \in Nat \ {0}
    /\ MaxClock \in Nat \ {0}

Targets  == Channels \cup Sources
Never    == 0
Statuses == {"active", "inactive", "not_found", "unknown", "dormant"}

\* A target that is not in the map: its record would be the zero Record.
NoRecord == [status |-> "none", checked |-> Never, success |-> Never, failures |-> 0]

VARIABLES
    clock,    \* the time, which runs between scans
    enabled,  \* the enabled targets of the lists
    file,     \* health.json
    \* the process
    phase,    \* "down", "scan" or "fetch"
    mode,     \* "channels", "revive" or "sources", "none" without a process
    now,      \* the time the scan started, which it uses throughout
    store,    \* the records in memory
    todo,     \* the targets that the loop has not come to
    current,  \* the target that is being checked, or was last
    \* history
    outcome,  \* what became of each target in this scan; "cut": its check was cancelled
    saved     \* what saved scans have seen of each target

scanVars   == <<phase, mode, now, store, todo, current, outcome>>
healthVars == <<clock, enabled, file, scanVars, saved>>
allVars    == <<getVars, healthVars>>

Nothing == [t \in Targets |-> "none"]

HealthInit ==
    /\ ClientInit
    /\ clock = 1
    /\ enabled = Targets
    /\ file = [t \in Targets |-> NoRecord]
    /\ phase = "down"
    /\ mode = "none"
    /\ now = Never
    /\ store = file
    /\ todo = {}
    /\ current = "none"
    /\ outcome = Nothing
    /\ saved = [t \in Targets |-> [success |-> Never, checked |-> Never, fails |-> 0,
                                   dormant |-> Never]]

-----------------------------------------------------------------------------
(* The operations on a record.                                             *)

\* Mutant: the day of the cutoff counts as before it.
DormantAtCutoff(r, t) ==
    \/ r.status = "dormant"
    \/ r.success # Never /\ r.success <= t - DormantAfter
    \/ r.success = Never /\ r.checked # Never /\ r.checked <= t - DormantAfter

\* ShouldDormant: since when a target has not succeeded, or if it never has, not been
\* checked.
ShouldDormant(r, t) ==
    \/ r.status = "dormant"
    \/ r.success # Never /\ r.success < t - DormantAfter
    \/ r.success = Never /\ r.checked # Never /\ r.checked < t - DormantAfter

\* MarkChannelDormant, MarkSourceDormant.
Dormant(r, t) == [r EXCEPT !.status = "dormant", !.checked = t]

\* Mutant: the record starts afresh.
UpdatedAfresh(r, status, t) ==
    [status   |-> status,
     checked  |-> t,
     success  |-> IF status = "active" THEN t ELSE Never,
     failures |-> IF status = "unknown" THEN r.failures + 1 ELSE 0]

\* update.
Updated(r, status, t) ==
    [status   |-> status,
     checked  |-> t,
     success  |-> IF status = "active" THEN t ELSE r.success,
     failures |-> IF status = "unknown" THEN r.failures + 1 ELSE 0]

\* recordError and classify: what a Get that returned `with` makes of the target,
\* according to whether its page has an accepted config.
Classified(with, accepted) ==
    CASE with = "page" /\ accepted  -> "active"
      [] with = "page" /\ ~accepted -> "inactive"
      [] with = "notFound"          -> "not_found"
      [] OTHER                      -> "unknown"

-----------------------------------------------------------------------------
Later == /\ phase = "down" /\ clock < MaxClock
         /\ clock' = clock + 1
         /\ UNCHANGED <<getVars, enabled, file, scanVars, saved>>

\* The lists are edited.
Edit(t) == /\ phase = "down"
           /\ enabled' = IF t \in enabled THEN enabled \ {t} ELSE enabled \cup {t}
           /\ UNCHANGED <<getVars, clock, file, scanVars, saved>>

Listed(m) == IF m = "sources" THEN Sources ELSE Channels

\* CheckChannels or CheckSources loads the lists and the records.  No two scans start
\* at the same time.
Begin(m) ==
    /\ phase = "down" /\ now < clock
    /\ phase' = "scan"
    /\ mode' = m
    /\ now' = clock
    /\ store' = file
    /\ todo' = enabled \cap Listed(m)
    /\ UNCHANGED <<getVars, clock, enabled, file, current, outcome, saved>>

\* A dormant target, or one that is to be from now on, is not checked.
SkipDormant(t) ==
    /\ phase = "scan" /\ t \in todo
    /\ ShouldDormant(store[t], now)
    /\ store' = [store EXCEPT ![t] = Dormant(@, now)]
    /\ outcome' = [outcome EXCEPT ![t] = "dormant"]
    /\ todo' = todo \ {t}
    /\ UNCHANGED <<getVars, clock, enabled, file, phase, mode, now, current, saved>>

Revivable(r) == r.status \in {"inactive", "not_found"}

\* Mutant: the revival begins before the test for dormant targets.
ToCheckDormant(t) == /\ phase = "scan" /\ t \in todo
                     /\ IF mode = "revive" THEN Revivable(store[t]) \/ store[t].status = "dormant"
                                           ELSE ~ShouldDormant(store[t], now)

\* The targets to check.
ToCheck(t) == /\ phase = "scan" /\ t \in todo
              /\ ~ShouldDormant(store[t], now)
              /\ mode = "revive" => Revivable(store[t])

\* reviveOnly: a channel that needs no revival.
SkipHealthy(t) ==
    /\ phase = "scan" /\ t \in todo
    /\ ~ShouldDormant(store[t], now)
    /\ mode = "revive" /\ ~Revivable(store[t])
    /\ todo' = todo \ {t}
    /\ UNCHANGED <<getVars, clock, enabled, file, phase, mode, now, store, current,
                   outcome, saved>>

\* Mutant: no look at the context between the checks.
FetchAnyway(t) ==
    /\ ToCheck(t)
    /\ CallGet(Scan)
    /\ phase' = "fetch"
    /\ current' = t
    /\ UNCHANGED <<clock, enabled, file, mode, now, store, todo, outcome, saved>>

\* The context is alive: the provider is called.
Fetch(t) ==
    /\ ToCheck(t) /\ Scan \notin ctxEnded
    /\ CallGet(Scan)
    /\ phase' = "fetch"
    /\ current' = t
    /\ UNCHANGED <<clock, enabled, file, mode, now, store, todo, outcome, saved>>

Fetching == /\ phase = "fetch"
            /\ GetStep(Scan)
            /\ UNCHANGED healthVars

\* The provider returns.
Update ==
    /\ phase = "fetch" /\ get[Scan] = "idle"
    /\ \E accepted \in BOOLEAN :
          LET status == Classified(returned[Scan], accepted)
          IN  /\ store' = [store EXCEPT ![current] = Updated(@, status, now)]
              /\ outcome' = [outcome EXCEPT ![current] =
                                IF returned[Scan] \in {"ctx", "cancelled"} THEN "cut" ELSE status]
    /\ todo' = todo \ {current}
    /\ phase' = "scan"
    /\ UNCHANGED <<getVars, clock, enabled, file, mode, now, current, saved>>

\* The process ends, and with it its client, its limiter and its context.
End == /\ phase' = "down"
       /\ get' = [c \in Callers |-> "idle"]
       /\ attempt' = [c \in Callers |-> 0]
       /\ answer' = [c \in Callers |-> "none"]
       /\ returned' = [c \in Callers |-> "none"]
       /\ ctxEnded' = {} /\ tick' = FALSE /\ closed' = FALSE /\ gets' = 0
       /\ requests' = [c \in Callers |-> 0]
       /\ granted' = [c \in Callers |-> 0]
       /\ todo' = {}
       /\ outcome' = Nothing
       /\ mode' = "none" /\ current' = "none"
       /\ UNCHANGED <<clock, enabled, now>>

\* ctx.Err() before a check: the results are dropped.
Cancelled == /\ \E t \in todo : ToCheck(t)
             /\ Scan \in ctxEnded
             /\ End
             /\ store' = file
             /\ UNCHANGED <<file, saved>>

\* What a saved scan adds to the history of a target.
SavedNow(h, o) ==
    CASE o = "none"    -> h
      [] o = "dormant" -> IF h.dormant = Never THEN [h EXCEPT !.dormant = now] ELSE h
      [] o = "active"  -> [h EXCEPT !.success = now, !.checked = now, !.fails = 0]
      [] o \in {"unknown", "cut"} -> [h EXCEPT !.checked = now, !.fails = @ + 1]
      [] OTHER         -> [h EXCEPT !.checked = now, !.fails = 0]

\* The loop is over: Save, by writing a second file and renaming it.
Save == /\ phase = "scan" /\ todo = {}
        /\ file' = store
        /\ saved' = [t \in Targets |-> SavedNow(saved[t], outcome[t])]
        /\ End
        /\ UNCHANGED store

\* The process dies, or Save fails.
Crash == /\ phase # "down"
         /\ End
         /\ store' = file
         /\ UNCHANGED <<file, saved>>

\* What goes on around the process: its limiter ticks, its context ends.
Around == /\ phase # "down"
          /\ Tick \/ EndContext(Scan)
          /\ UNCHANGED healthVars

Step == \/ \E t \in Targets : SkipDormant(t) \/ SkipHealthy(t) \/ Fetch(t)
        \/ Fetching \/ Update \/ Cancelled \/ Save

HealthNext == \/ Later \/ Around \/ Crash \/ Step
              \/ \E t \in Targets : Edit(t)
              \/ \E m \in {"channels", "revive", "sources"} : Begin(m)

HealthSpec == HealthInit /\ [][HealthNext]_allVars

-----------------------------------------------------------------------------
(* Properties.                                                             *)

\* The ranges of the variables.
Times   == Never .. MaxClock
Records == [status : Statuses \cup {"none"}, checked : Times, success : Times, failures : Nat]

HealthTypeOK ==
    /\ ClientTypeOK
    /\ clock \in 1 .. MaxClock
    /\ enabled \subseteq Targets
    /\ file \in [Targets -> Records]
    /\ phase \in {"down", "scan", "fetch"}
    /\ mode \in {"none", "channels", "revive", "sources"}
    /\ now \in Times
    /\ store \in [Targets -> Records]
    /\ todo \subseteq enabled \cap Listed(mode)
    /\ current \in Targets \cup {"none"}
    /\ outcome \in [Targets -> Statuses \cup {"none", "cut"}]
    /\ saved \in [Targets -> [success : Times, checked : Times, fails : Nat, dormant : Times]]

\* Across saved, cancelled and crashed scans a record tells what the saved ones saw:
\* the last success survives failures, and the failures are those since an answer.
RecordsTellWhatWasSaved ==
    \A t \in Targets :
        /\ file[t].success = saved[t].success
        /\ file[t].failures = saved[t].fails
        /\ file[t].status # "dormant" => file[t].checked = saved[t].checked

\* A target is dormant only after DormantAfter without a success or, for one that never
\* had any, without a check; and it has not been checked since.
DormancyIsEarned ==
    \A t \in Targets : file[t].status = "dormant" =>
        LET h == saved[t]
        IN  /\ h.dormant # Never
            /\ h.checked # Never
            /\ h.checked < h.dormant
            /\ IF h.success # Never THEN h.success < h.dormant - DormantAfter
                                    ELSE h.checked < h.dormant - DormantAfter

\* No command takes a target out of dormancy, revive-channels included.
DormantForEver ==
    [][\A t \in Targets : file[t].status = "dormant" => file'[t].status = "dormant"]_allVars

\* A process is a transaction on the book of records: what check.go saves in the end is
\* all it has found, and a scan that is cancelled or dies leaves no trace.  A dormant
\* record stays dormant, and any other is one check further on.
Book == INSTANCE RecordBook WITH book <- file, at <- now, running <- phase # "down"

ImplementsRecordBook == Book!SSpec

\* A cancelled scan drops its results, unless the cancellation hit its last check: then
\* it is saved with one failure that the target is not to blame for.
OneResultIsCut ==
    /\ Cardinality({t \in Targets : outcome[t] = "cut"}) <= 1
    /\ \A t \in Targets : outcome[t] = "cut" => Scan \in ctxEnded /\ t = current

\* A saved scan leaves no enabled target of its list out, but for those that need no
\* revival, and touches no other.
ScanCoversItsList ==
    [][file' # file =>
        \A t \in Targets :
            IF t \in enabled \cap Listed(mode)
                 /\ (mode = "revive" => Revivable(file[t]) \/ file'[t].status = "dormant")
            THEN file'[t].checked = now
            ELSE file'[t] = file[t]]_allVars
-----------------------------------------------------------------------------
(* An inductive invariant, which implies the properties above.             *)

\* The time of a scan is that of its start, and time goes on between scans.
TimeIsOrdered ==
    /\ now <= clock
    /\ phase # "down" => now = clock
    /\ \A t \in Targets :
          /\ saved[t].checked <= now
          /\ phase # "down" => saved[t].checked < now

\* What a scan has made of the record of a target so far.
Made(t) ==
    CASE outcome[t] = "none"    -> file[t]
      [] outcome[t] = "dormant" -> Dormant(file[t], now)
      [] outcome[t] = "cut"     -> Updated(file[t], "unknown", now)
      [] OTHER                  -> Updated(file[t], outcome[t], now)

\* A target that a scan may check.
Checkable(t) == ~ShouldDormant(file[t], now) /\ (mode = "revive" => Revivable(file[t]))

\* What a scan has come to and what it has made of it.
TargetIsOrdered(t) ==
    /\ store[t] = Made(t)
    /\ outcome[t] = "dormant" => ShouldDormant(file[t], now)
    /\ outcome[t] \notin {"none", "dormant"} => Checkable(t)
    /\ outcome[t] = "cut" => Scan \in ctxEnded /\ t = current /\ phase = "scan"
    /\ t \notin (enabled \cap Listed(mode)) \ todo => outcome[t] = "none"
    /\ phase # "down" /\ t \in (enabled \cap Listed(mode)) \ todo /\ outcome[t] = "none" =>
          mode = "revive" /\ ~Revivable(file[t]) /\ ~ShouldDormant(file[t], now)

\* Where the scan is.
ScanIsOrdered ==
    /\ phase = "down" <=> mode = "none"
    /\ phase = "down" => outcome = Nothing /\ todo = {}
    /\ phase # "fetch" => get[Scan] = "idle"
    /\ phase = "fetch" =>
          /\ current \in todo
          /\ Checkable(current)
          /\ get[Scan] = "idle" => returned[Scan] # "none"
    /\ \A t \in Targets : TargetIsOrdered(t)

\* A target with a success, or that is dormant, has been checked; the time of its
\* dormancy is known.
HistoryIsSound ==
    \A t \in Targets :
        /\ saved[t].success # Never => saved[t].checked # Never
        /\ saved[t].dormant # Never <=> file[t].status = "dormant"

HealthInv ==
    /\ ClientInv
    /\ HealthTypeOK
    /\ TimeIsOrdered
    /\ ScanIsOrdered
    /\ HistoryIsSound
    /\ RecordsTellWhatWasSaved
    /\ DormancyIsEarned
=============================================================================
