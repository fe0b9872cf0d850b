---------------------------- MODULE ConfigTester ----------------------------
(***************************************************************************)
(* internal/tester: TestConfigs runs TestConfig for every config in a      *)
(* goroutine of its own, as many at a time as a semaphore admits.  Each    *)
(* goes through the sites and asks each of them through the proxy, with    *)
(* retries; the result is kept per name of a site.  GenerateReport counts  *)
(* what came back.                                                         *)
(***************************************************************************)
EXTENDS Naturals, FiniteSets, Sequences, Functions

CONSTANTS Configs,     \* the entries of the list of links to test
          Sites,       \* the names of the target sites, in order; a name may recur
          BadURLs,     \* the sites whose URL is not an http or https URL
          MaxConcurrentTests,
          RetryCount

\* LoadTargetSites replaces a limit that is not positive by 10.
ASSUME TesterAssumption ==
    /\ IsFiniteSet(Configs)
    /\ MaxConcurrentTests \in Nat \ {0}
    /\ RetryCount \in Nat
    /\ Sites \in Seq(STRING)
    /\ BadURLs \subseteq DOMAIN Sites

Names == {Sites[i] : i \in DOMAIN Sites}

\* SiteResults[name], if there is one, and whether it is a success.
NoSite  == [tested |-> FALSE, success |-> FALSE]
Untried == [valid |-> FALSE, skipped |-> FALSE, totalTested |-> 0, totalSuccess |-> 0,
            sites |-> [n \in Names |-> NoSite]]

VARIABLES
    ctx,     \* "live" or "ended"
    main,    \* TestConfigs: "idle", "launch", "wait" or "done"
    pc,      \* of the goroutine of a config: "new", "acquire", "link", "next",
             \* "backoff", "request", "append" or "gone"
    site,    \* the site it is at
    attempt, \* the attempt at that site
    result,  \* its ConfigTestResult
    results  \* the configs whose result has been appended

testVars == <<ctx, main, pc, site, attempt, result, results>>

TestInit ==
    /\ ctx = "live"
    /\ main = "idle"
    /\ pc = [c \in Configs |-> "new"]
    /\ site = [c \in Configs |-> 1]
    /\ attempt = [c \in Configs |-> 0]
    /\ result = [c \in Configs |-> Untried]
    /\ results = {}

\* Another call has goroutines and results of its own.
Renew ==
    /\ pc' = [c \in Configs |-> "new"]
    /\ site' = [c \in Configs |-> 1]
    /\ attempt' = [c \in Configs |-> 0]
    /\ result' = [c \in Configs |-> Untried]
    /\ results' = {}

\* TestConfigs is called, and its result is dropped when it has been used.
Call   == main = "idle" /\ main' = "launch" /\ Renew /\ UNCHANGED ctx
Forget == main' = "idle" /\ Renew /\ UNCHANGED ctx

\* Another process has a context of its own as well.
Restart == main' = "idle" /\ Renew /\ ctx' = "live"

Move(c, to) == pc' = [pc EXCEPT ![c] = to]

Launch(c) ==
    /\ main = "launch"
    /\ ctx = "live"
    /\ pc[c] = "new"
    /\ Move(c, "acquire")
    /\ UNCHANGED <<ctx, main, site, attempt, result, results>>

\* The loop is at its end, or has seen that the context has ended.
Launched ==
    /\ main = "launch"
    /\ ctx = "ended" \/ \A c \in Configs : pc[c] # "new"
    /\ main' = "wait"
    /\ UNCHANGED <<ctx, pc, site, attempt, result, results>>

Holders == {c \in Configs : pc[c] \in {"link", "next", "backoff", "request", "append"}}

Acquire(c) ==
    /\ pc[c] = "acquire"
    /\ Cardinality(Holders) < MaxConcurrentTests
    /\ Move(c, "link")
    /\ UNCHANGED <<ctx, main, site, attempt, result, results>>

\* A goroutine that gives up waiting for the semaphore leaves no result.
GiveUp(c) ==
    /\ pc[c] = "acquire"
    /\ ctx = "ended"
    /\ Move(c, "gone")
    /\ UNCHANGED <<ctx, main, site, attempt, result, results>>

\* Mutant: an unsupported link is marked and tested all the same.
LinkMarked(c) ==
    /\ pc[c] = "link"
    /\ \/ Move(c, "append") /\ UNCHANGED result
       \/ /\ Move(c, "next")
          /\ \E skipped \in BOOLEAN :
                result' = [result EXCEPT ![c].valid = TRUE, ![c].skipped = skipped]
    /\ UNCHANGED <<ctx, main, site, attempt, results>>

\* parser.Parse and proxy.NewDialer: an unsupported link is valid but skipped.
Link(c) ==
    /\ pc[c] = "link"
    /\ \/ Move(c, "append") /\ UNCHANGED result
       \/ /\ Move(c, "append")
          /\ result' = [result EXCEPT ![c].valid = TRUE, ![c].skipped = TRUE]
       \/ /\ Move(c, "next")
          /\ result' = [result EXCEPT ![c].valid = TRUE]
    /\ UNCHANGED <<ctx, main, site, attempt, results>>

\* The loop over the sites.
NextSite(c) ==
    /\ pc[c] = "next"
    /\ Move(c, IF ctx = "ended" \/ site[c] > Len(Sites) THEN "append" ELSE "request")
    /\ attempt' = [attempt EXCEPT ![c] = 0]
    /\ UNCHANGED <<ctx, main, site, result, results>>

\* testSiteAccess returns.
SiteDone(c, success) ==
    /\ Move(c, "next")
    /\ site' = [site EXCEPT ![c] = @ + 1]
    /\ result' = [result EXCEPT
          ![c].totalTested = @ + 1,
          ![c].totalSuccess = IF success THEN @ + 1 ELSE @,
          ![c].sites[Sites[site[c]]] = [tested |-> TRUE, success |-> success]]

BadURL(c) ==
    /\ pc[c] = "request"
    /\ site[c] \in BadURLs
    /\ SiteDone(c, FALSE)
    /\ UNCHANGED <<ctx, main, attempt, results>>

\* One request.  Only a 2xx is a success: not a redirect, wherever it leads.
Request(c) ==
    /\ pc[c] = "request"
    /\ site[c] \notin BadURLs
    /\ \/ SiteDone(c, TRUE) /\ UNCHANGED attempt
       \/ IF attempt[c] = RetryCount
          THEN SiteDone(c, FALSE) /\ UNCHANGED attempt
          ELSE /\ Move(c, "backoff")
               /\ attempt' = [attempt EXCEPT ![c] = @ + 1]
               /\ UNCHANGED <<site, result>>
    /\ UNCHANGED <<ctx, main, results>>

\* The wait before a retry.
Backoff(c) ==
    /\ pc[c] = "backoff"
    /\ \/ Move(c, "request") /\ UNCHANGED <<site, result>>
       \/ ctx = "ended" /\ SiteDone(c, FALSE)
    /\ UNCHANGED <<ctx, main, attempt, results>>

\* The result is appended under the mutex, and the semaphore released.
AppendResult(c) ==
    /\ pc[c] = "append"
    /\ results' = results \cup {c}
    /\ Move(c, "gone")
    /\ UNCHANGED <<ctx, main, site, attempt, result>>

\* Mutant: wg.Done comes before the append.
CollectedEarly ==
    /\ main = "wait"
    /\ \A c \in Configs : pc[c] \in {"new", "append", "gone"}
    /\ main' = "done"
    /\ UNCHANGED <<ctx, pc, site, attempt, result, results>>

\* wg.Wait and the sort.  TestConfigs returns no error, whatever happened.
Collected ==
    /\ main = "wait"
    /\ \A c \in Configs : pc[c] \in {"new", "gone"}
    /\ main' = "done"
    /\ UNCHANGED <<ctx, pc, site, attempt, result, results>>

ContextEnds ==
    /\ ctx = "live"
    /\ main \in {"launch", "wait"}
    /\ ctx' = "ended"
    /\ UNCHANGED <<main, pc, site, attempt, result, results>>

Worker(c) == \/ Acquire(c) \/ GiveUp(c) \/ Link(c) \/ NextSite(c) \/ BadURL(c)
             \/ Request(c) \/ Backoff(c) \/ AppendResult(c)

Testing == Launched \/ Collected \/ \E c \in Configs : Launch(c) \/ Worker(c)

(***************************************************************************)
(* GenerateReport.                                                         *)
(***************************************************************************)
TotalConfigs   == Cardinality(results)
ValidConfigs   == Cardinality({c \in results : result[c].valid})
TestedConfigs  == Cardinality({c \in results : result[c].totalTested > 0})
WorkingConfigs == Cardinality({c \in results : result[c].totalSuccess > 0})
SkippedConfigs == Cardinality({c \in results : result[c].skipped})

\* SiteStatistics[name], which is computed once for each site of that name.
SiteTested(n)  == Cardinality({c \in results : result[c].sites[n].tested})
SiteSuccess(n) == Cardinality({c \in results : result[c].sites[n].success})

(***************************************************************************)
(* Properties.                                                             *)
(***************************************************************************)
TestTypeOK ==
    /\ ctx \in {"live", "ended"}
    /\ main \in {"idle", "launch", "wait", "done"}
    /\ pc \in [Configs -> {"new", "acquire", "link", "next", "backoff", "request",
                           "append", "gone"}]
    /\ site \in [Configs -> 1..(Len(Sites) + 1)]
    /\ attempt \in [Configs -> 0..RetryCount]
    /\ results \subseteq Configs

\* A test whose context did not end has a result for every config, in which a
\* config with a dialer has been through all sites.  (When it did end, the
\* report counts what is there, and nothing in it tells.)
CompleteUnlessCancelled ==
    main = "done" /\ ctx = "live" =>
        /\ results = Configs
        /\ \A c \in Configs : result[c].valid /\ ~result[c].skipped
              => result[c].totalTested = Len(Sites)

\* The numbers of a report agree with each other: an invalid or skipped config
\* is in no other count, and the statistics of the sites add up to the tests
\* made, or to less when two of the sites tested share a name: the map keeps
\* one of their results.
ReportAddsUp ==
    main = "done" =>
        /\ WorkingConfigs <= TestedConfigs
        /\ TestedConfigs + SkippedConfigs <= ValidConfigs
        /\ \A n \in Names : SiteSuccess(n) <= SiteTested(n)
        /\ LET made == SumFunction([c \in results |-> result[c].totalTested])
               kept == SumFunction([n \in Names |-> SiteTested(n)])
           IN  /\ kept <= made
               /\ (\A c \in results : \A i, j \in 1..result[c].totalTested :
                      Sites[i] = Sites[j] => i = j) => kept = made
==============================================================================
