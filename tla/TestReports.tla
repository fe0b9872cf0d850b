----------------------------- MODULE TestReports -----------------------------
(***************************************************************************)
(* Who calls TestConfigs and what becomes of its result: the commands      *)
(* test-configs, test-subscription, test-file and test-manual, a process   *)
(* per test; SubscriptionWatcher, whose goroutine tests once and then at   *)
(* every tick until it is stopped; TestAndWatchSubscription; and           *)
(* SaveSubscriptionResults.  A report is saved in steps, and the process   *)
(* may die at any of them.                                                 *)
(*                                                                         *)
(* A test is known by its number, a file by its kind and the second in its *)
(* name.  Processes follow each other, and the next one may be of another  *)
(* driver: three of them write to one directory, outputDir/subscriptions/  *)
(* <name>.  Two processes that save there at a time are not modelled.      *)
(***************************************************************************)
EXTENDS ConfigTester

CONSTANTS MaxTests, \* bound on the tests
          MaxClock  \* bound on the seconds that pass

ASSUME ReportsAssumption == MaxTests \in Nat \ {0} /\ MaxClock \in Nat

Drivers == {"configs", "manual", "subscription", "file", "watch", "once", "all"}

\* What each does with a report.
testConfigs                == <<"json", "md", "individual">>
testManual                 == <<"json", "md">>
SaveSubscriptionTestReport == <<"json", "md">>
SaveFileTestReport         == <<"json", "md">>
testOnce                   == <<"json", "md", "latest json", "latest md">>
SaveSubscriptionResults    == <<"json", "md", "latest json", "latest md">>
\* Before it starts a watcher, which writes to a directory below.
TestAndWatchSubscription   == <<"json", "md", "link json", "link md">>

Script(driver) ==
    CASE driver = "configs" -> testConfigs
      [] driver = "manual" -> testManual
      [] driver = "subscription" -> SaveSubscriptionTestReport
      [] driver = "file" -> SaveFileTestReport
      [] driver = "watch" -> testOnce
      [] driver = "once" -> TestAndWatchSubscription
      [] driver = "all" -> SaveSubscriptionResults

\* The watcher that "once" starts is "watch" in a directory below.  The others
\* have names of their own.
Sharing(driver) == IF driver \in {"watch", "once", "all"} THEN {"watch", "once", "all"} ELSE {driver}

\* Where the name has no time in it every test has the same one.
Latest == MaxClock + 1
Fixed  == MaxClock + 2
Files  == {"json", "md"} \X (0..Fixed)

\* The target of a link that leads nowhere: a relative outputDir is looked for
\* below the directory of the link.
Nowhere == MaxClock + 3

Torn == MaxTests + 1 \* the content of a file whose writing was cut

VARIABLES
    driver,
    alive,   \* the process runs
    clock,   \* the time in seconds
    test,    \* the number of tests started
    stamp,   \* the time in the names of the files of this test, until it is over
    todo,    \* the steps of saving that are left
    files,   \* the test whose report a file holds, 0 if there is none
    links,   \* the files that are symbolic links, with their targets
    stopper, \* the caller of Stop: "none", "waiting" or "returned"
    watcher, \* the goroutine of the watcher, or the function that tests once:
             \* "idle", "testing", "saving" or "gone"
    told     \* history, of each kind: the last test whose latest report was written

ownVars  == <<driver, alive, clock, test, stamp, todo, files, links, stopper, watcher, told>>
repoVars == <<testVars, ownVars>>

ReportsInit ==
    /\ TestInit
    /\ driver \in Drivers
    /\ alive = TRUE
    /\ clock = 0
    /\ test = 0
    /\ stamp = 0
    /\ todo = <<>>
    /\ files = [f \in Files |-> 0]
    /\ links = << >>
    /\ stopper = "none"
    /\ watcher = "idle"
    /\ told = [kind \in {"json", "md"} |-> 0]

\* A process follows one that has died or has nothing more to do.
NextProcess ==
    /\ ~alive \/ watcher = "gone"
    /\ alive => stopper # "waiting"
    /\ test < MaxTests
    /\ driver' \in Sharing(driver)
    /\ Restart
    /\ alive' = TRUE /\ watcher' = "idle" /\ stopper' = "none"
    /\ stamp' = 0 /\ todo' = <<>>
    /\ UNCHANGED <<clock, test, files, links, told>>

\* A test starts: at once or at a tick.  The select of the watcher may prefer a
\* tick to a closed StopChan.
Begin ==
    /\ alive
    /\ watcher = "idle"
    /\ test < MaxTests
    /\ test' = test + 1
    /\ stamp' = clock
    /\ watcher' = "testing"
    /\ Call
    /\ UNCHANGED <<driver, alive, clock, todo, files, links, stopper, told>>

\* Only the watcher tests again.
Over == watcher' = IF driver = "watch" THEN "idle" ELSE "gone"

\* The configs cannot be loaded.
LoadFails ==
    /\ alive
    /\ watcher = "testing"
    /\ main = "launch" /\ \A c \in Configs : pc[c] = "new"
    /\ Forget
    /\ Over
    /\ stamp' = 0
    /\ UNCHANGED <<driver, alive, clock, test, todo, files, links, stopper, told>>

TestStep ==
    /\ alive
    /\ Testing
    /\ UNCHANGED ownVars

\* GenerateReport.  All but the watcher take the time now.
Report ==
    /\ alive
    /\ watcher = "testing"
    /\ main = "done"
    /\ Forget
    /\ watcher' = "saving"
    /\ stamp' = CASE driver = "watch" -> stamp
                  [] driver \in {"subscription", "file"} -> Fixed
                  [] OTHER -> clock
    /\ todo' = Script(driver)
    /\ UNCHANGED <<driver, alive, clock, test, files, links, stopper, told>>

\* os.WriteFile follows a link, and fails when it leads nowhere.
Target(f) == IF f \in DOMAIN links THEN links[f] ELSE f
Put(f, content) ==
    IF Target(f) \in Files THEN files' = [files EXCEPT ![Target(f)] = content]
    ELSE UNCHANGED files

Kind(step) == IF step \in {"json", "latest json", "link json"} THEN "json" ELSE "md"
Dest(step) == <<Kind(step), IF step \in {"json", "md"} THEN stamp ELSE Latest>>

SaveReport         == Put(<<"json", stamp>>, test) /\ UNCHANGED links
SaveMarkdownReport == Put(<<"md", stamp>>, test) /\ UNCHANGED links

\* Mutant: the arguments of copyFile are swapped.
CopyFromLatest(step) == Put(<<Kind(step), stamp>>, files[Dest(step)]) /\ UNCHANGED links

CopyToLatest(step) == Put(Dest(step), files[<<Kind(step), stamp>>]) /\ UNCHANGED links

\* Symlink needs a name that is not in use; from then on, or where there are no
\* links, the file is copied, and the copy goes through the link that is there.
NewLink(step, target) ==
    /\ Dest(step) \notin DOMAIN links
    /\ files[Dest(step)] = 0
    /\ links' = [f \in DOMAIN links \cup {Dest(step)} |->
                    IF f = Dest(step) THEN <<Kind(step), target>> ELSE links[f]]
    /\ UNCHANGED files

\* Mutant: a link that is there is taken for one to the new report.
LinkOnce(step) ==
    \/ \E target \in {stamp, Nowhere} : NewLink(step, target)
    \/ Dest(step) \in DOMAIN links /\ UNCHANGED <<files, links>>

LinkLatest(step) ==
    \/ \E target \in {stamp, Nowhere} : NewLink(step, target)
    \/ CopyToLatest(step)

SaveIndividualConfigReports == UNCHANGED <<files, links>>

SaveStep ==
    LET step == Head(todo)
    IN  CASE step = "json" -> SaveReport
          [] step = "md" -> SaveMarkdownReport
          [] step \in {"latest json", "latest md"} -> CopyToLatest(step)
          [] step \in {"link json", "link md"} -> LinkLatest(step)
          [] step = "individual" -> SaveIndividualConfigReports

LatestSteps == {"latest json", "latest md", "link json", "link md"}

Save ==
    /\ alive
    /\ todo # <<>>
    /\ SaveStep
    /\ todo' = Tail(todo)
    /\ told' = IF Head(todo) \in LatestSteps THEN [told EXCEPT ![Kind(Head(todo))] = test] ELSE told
    /\ UNCHANGED <<testVars, driver, alive, clock, test, stamp, stopper, watcher>>

\* A step is cut off.  JSON is renamed into place and a link is made at once;
\* everything else is written where it is.
CutOff ==
    /\ alive
    /\ watcher = "saving"
    /\ \/ UNCHANGED files
       \/ /\ todo # <<>>
          /\ Head(todo) \in {"md"} \cup LatestSteps
          /\ Put(Dest(Head(todo)), Torn)
    /\ UNCHANGED <<testVars, driver, clock, test, stamp, links, stopper, watcher, told>>

\* By an error: when the report itself fails to be written the rest is not tried;
\* a failure of a later step is a warning.
SaveFails ==
    /\ todo # <<>>
    /\ CutOff
    /\ todo' = IF Head(todo) \in {"json", "md"} THEN <<>> ELSE Tail(todo)
    /\ UNCHANGED alive

\* By the end of the process.  At another time, it leaves what the next process
\* finds as well when the process has nothing more to do.
Die == CutOff /\ alive' = FALSE /\ UNCHANGED todo

Saved ==
    /\ alive
    /\ watcher = "saving"
    /\ todo = <<>>
    /\ Over
    /\ stamp' = 0
    /\ UNCHANGED <<testVars, driver, alive, clock, test, todo, files, links, stopper, told>>

\* Stop closes StopChan and waits for the goroutine.
Stop ==
    /\ driver = "watch"
    /\ alive
    /\ stopper = "none"
    /\ test > 0
    /\ stopper' = "waiting"
    /\ UNCHANGED <<testVars, driver, alive, clock, test, stamp, todo, files, links, watcher, told>>

\* Mutant: the goroutine looks at its context only.
QuitWithContext ==
    /\ alive
    /\ driver = "watch"
    /\ watcher = "idle"
    /\ ctx = "ended"
    /\ watcher' = "gone"
    /\ UNCHANGED <<testVars, driver, alive, clock, test, stamp, todo, files, links, stopper, told>>

Quit ==
    /\ alive
    /\ driver = "watch"
    /\ watcher = "idle"
    /\ stopper = "waiting" \/ ctx = "ended"
    /\ watcher' = "gone"
    /\ UNCHANGED <<testVars, driver, alive, clock, test, stamp, todo, files, links, stopper, told>>

StopReturns ==
    /\ alive
    /\ stopper = "waiting"
    /\ watcher = "gone"
    /\ stopper' = "returned"
    /\ UNCHANGED <<testVars, driver, alive, clock, test, stamp, todo, files, links, watcher, told>>

Tick ==
    /\ clock < MaxClock
    /\ clock' = clock + 1
    /\ UNCHANGED <<testVars, driver, alive, test, stamp, todo, files, links, stopper, watcher, told>>

\* SaveSubscriptionResults has a context that never ends.
ContextCancelled == alive /\ driver # "all" /\ ContextEnds /\ UNCHANGED ownVars

Goroutine == LoadFails \/ TestStep \/ Report \/ Save \/ Saved \/ Quit \/ StopReturns

ReportsNext == NextProcess \/ Begin \/ Goroutine \/ SaveFails \/ Stop \/ Die \/ Tick \/ ContextCancelled

\* A request ends by the timeout of the client, and what can run runs.
ReportsSpec == ReportsInit /\ [][ReportsNext]_repoVars /\ WF_repoVars(Goroutine)

(***************************************************************************)
(* Properties.                                                             *)
(***************************************************************************)
\* A report saved under its time is replaced only by a test with the same second
\* in the names of its files, or through a link that was made to it when it was
\* the latest and stays: by whatever writes "latest" after that, the watcher
\* (watcher.go:121), another TestAndWatchSubscription (213 to 219) or
\* SaveSubscriptionResults (296).
SavedReportsStay ==
    [][\A f \in Files : f[2] <= MaxClock /\ files[f] # 0 /\ files'[f] # files[f] =>
          /\ files'[f] \in {test, Torn}
          /\ \/ stamp = f[2]
             \/ \E l \in DOMAIN links : l[2] = Latest /\ links[l] = f /\ links' = links]_repoVars

\* Who reads "latest" reads no older report than the last that was written there
\* without a warning, by any driver and through any link (watcher.go:115 to 126,
\* 213 to 222, 296 to 301), unless the link has led nowhere from the beginning.
\* A copy that was cut off leaves what cannot be read.
LatestTellsTheLast ==
    \A kind \in {"json", "md"} :
        Target(<<kind, Latest>>) \in Files => files[Target(<<kind, Latest>>)] >= told[kind]

\* "latest.json -> YYYYMMDD_HHMMSS.json  # Symlink to latest" (TESTING.md:110):
\* where latest is a link, it is one to the report that was written there last.
\* It stays the link to the first, which is overwritten instead (watcher.go:213).
LatestLinksToNewest ==
    \A l \in DOMAIN links :
        todo = <<>> /\ watcher = "saving" /\ told[l[1]] = test /\ links[l] \in Files
            => links[l] = <<l[1], stamp>>

\* Stop returns, though only after the test that runs, and all its retries.
StopEnds == (stopper = "waiting") ~> (stopper = "returned" \/ ~alive)
==============================================================================
