----------------------------- MODULE FetchPhase -----------------------------
(***************************************************************************)
(* internal/app/collect.go, one fetch phase of Collect: the main goroutine *)
(* submits a fetch for each channel to a WorkerPool, waits, and ranges     *)
(* over the slice the fetches append to; the pool is stopped when Collect  *)
(* returns.  The channels and the sources go through the same code, each   *)
(* with a pool and a slice of its own, and this module is either.          *)
(*                                                                         *)
(* The pool is WorkerPool's with one client; ticket k is the fetch of the  *)
(* k-th channel and ticket Fetches + 1 the sentinel of Wait.               *)
(*                                                                         *)
(* The fetches append under channelMu; the range does not take it.  The    *)
(* slice has the capacity for every result, so append never moves it: it   *)
(* stores the new length and copies the element behind it.  A range that   *)
(* reads the length before an append sees nothing of it, and one that      *)
(* reads the length between the two finds a slot that is still blank, that *)
(* holds part of the item, or that has been filled by the time it is read. *)
(***************************************************************************)
EXTENDS WorkerPool, Sequences

CONSTANTS Main,      \* the goroutine that runs Collect
          Fetches    \* the number of channels, or sources

ASSUME FetchAssumption ==
    /\ Clients = {Main}
    /\ Fetches \in Nat
    /\ MaxCalls > Fetches
    /\ MaxStarts > 0

VARIABLES main,      \* where Collect is
          next,      \* the channel to submit next
          ctxDone,   \* Collect's context is done
          stage,     \* how far the function of a busy worker is
          slot,      \* the elements below the length: the fetch and "copying" or "full"
          header,    \* the length that the range read
          seen       \* what the range read from each slot

fetchVars == <<main, next, ctxDone, stage, slot, header, seen>>
allVars   == <<vars, fetchVars>>

FetchInit == /\ Init
             /\ main = "start"
             /\ next = 1
             /\ ctxDone = FALSE
             /\ stage = [w \in WorkerIds |-> "fetch"]
             /\ slot = <<>>
             /\ header = 0
             /\ seen = <<>>

FetchIds == 1 .. Fetches
Appended == {slot[i].fetch : i \in DOMAIN slot}

-----------------------------------------------------------------------------
(* The fetches, on the workers.                                            *)

\* The worker runs a fetch, and nobody is between lock and unlock of channelMu.
Fetching(w) == worker[w] = "busy" /\ run[w] \in FetchIds /\ stage[w] = "fetch"
Unlocked == \A w \in WorkerIds : stage[w] # "copy"

\* The worker receives a function, or leaves.
WorkerSelects(w) ==
    /\ Take(w) \/ Quit(w)
    /\ stage' = [stage EXCEPT ![w] = "fetch"]
    /\ UNCHANGED <<main, next, ctxDone, slot, header, seen>>

\* Mutant: append without channelMu, so that two fetches may store the same length.
AppendUnlocked(w) ==
    /\ Fetching(w)
    /\ stage' = [stage EXCEPT ![w] = "copy"]
    /\ slot' = IF Unlocked \/ slot = <<>>
               THEN Append(slot, [fetch |-> run[w], state |-> "copying"])
               ELSE [slot EXCEPT ![Len(slot)] = [fetch |-> run[w], state |-> "copying"]]
    /\ UNCHANGED <<vars, main, next, ctxDone, header, seen>>

\* The fetch is over; under channelMu append stores the new length ...
AppendLength(w) ==
    /\ Fetching(w) /\ Unlocked
    /\ stage' = [stage EXCEPT ![w] = "copy"]
    /\ slot' = Append(slot, [fetch |-> run[w], state |-> "copying"])
    /\ UNCHANGED <<vars, main, next, ctxDone, header, seen>>

\* ... and then the element, and channelMu is unlocked.
AppendElement(w) ==
    /\ stage[w] = "copy"
    /\ stage' = [stage EXCEPT ![w] = "end"]
    /\ slot' = [slot EXCEPT ![Len(slot)].state = "full"]
    /\ UNCHANGED <<vars, main, next, ctxDone, header, seen>>

\* The function given to the pool returns: a fetch after its append, or the
\* sentinel.
JobReturns(w) ==
    /\ Finish(w)
    /\ run[w] \in FetchIds => stage[w] = "end"
    /\ UNCHANGED fetchVars

Worker(w) == WorkerSelects(w) \/ AppendLength(w) \/ AppendElement(w) \/ JobReturns(w)

-----------------------------------------------------------------------------
(* Collect.                                                                *)

\* channelPool.Start.
StartPool == /\ main = "start"
             /\ Start(Main)
             /\ main' = "submit"
             /\ UNCHANGED <<next, ctxDone, stage, slot, header, seen>>

\* The loop over the channels.
SubmitFetch == /\ main = "submit" /\ next <= Fetches /\ ~ctxDone
               /\ CallSubmit(Main)
               /\ main' = "submitting"
               /\ UNCHANGED <<next, ctxDone, stage, slot, header, seen>>

FetchSubmitted == /\ main = "submitting"
                  /\ Enqueue(Main)
                  /\ main' = "submit"
                  /\ next' = next + 1
                  /\ UNCHANGED <<ctxDone, stage, slot, header, seen>>

\* ctx.Err() in the loop: Stop, and return.
GiveUp == /\ main = "submit" /\ next <= Fetches /\ ctxDone
          /\ CallStop(Main)
          /\ main' = "stopping"
          /\ UNCHANGED <<next, ctxDone, stage, slot, header, seen>>

\* channelPool.Wait.
CallPoolWait == /\ main = "submit" /\ next > Fetches
                /\ CallWait(Main)
                /\ main' = "waiting"
                /\ UNCHANGED <<next, ctxDone, stage, slot, header, seen>>

SentinelSubmitted == /\ main = "waiting"
                     /\ Enqueue(Main)
                     /\ UNCHANGED fetchVars

PoolWaitReturns == /\ main = "waiting"
                   /\ WaitReturn(Main)
                   /\ main' = "range"
                   /\ UNCHANGED <<next, ctxDone, stage, slot, header, seen>>

\* range channelResults evaluates the slice once.
RangeBegins == /\ main = "range"
               /\ main' = "ranging"
               /\ header' = Len(slot)
               /\ UNCHANGED <<vars, next, ctxDone, stage, slot, seen>>

\* What reading a slot may give: one that is being copied is still blank, or holds
\* part of the item.
Readings(s) == IF s.state = "full" THEN {[fetch |-> s.fetch, read |-> "whole"]}
               ELSE {[fetch |-> 0, read |-> "blank"], [fetch |-> s.fetch, read |-> "torn"]}

\* The range reads an item and processes it: addConfigs, observeCandidates.
RangeItem == /\ main = "ranging" /\ Len(seen) < header
             /\ \E r \in Readings(slot[Len(seen) + 1]) : seen' = Append(seen, r)
             /\ UNCHANGED <<vars, main, next, ctxDone, stage, slot, header>>

RangeEnds == /\ main = "ranging" /\ Len(seen) = header
             /\ main' = "rest"
             /\ UNCHANGED <<vars, next, ctxDone, stage, slot, header, seen>>

\* Mutant: the pool is not stopped when Collect returns.
ReturnAtOnce == /\ main = "rest"
                /\ main' = "returned"
                /\ UNCHANGED <<vars, next, ctxDone, stage, slot, header, seen>>

\* The rest of Collect, which may be an early return, and the deferred Stop.
RestOfCollect == /\ main = "rest"
                 /\ CallStop(Main)
                 /\ main' = "stopping"
                 /\ UNCHANGED <<next, ctxDone, stage, slot, header, seen>>

\* Stop returns; the deferred Stop of a run that gave up returns at once.  After
\* the pool the limiter is closed, which hands out no token any more.
CollectReturns == /\ main = "stopping"
                  /\ StopReturn(Main)
                  /\ main' = "returned"
                  /\ UNCHANGED <<next, ctxDone, stage, slot, header, seen>>

\* Whoever owns the context.
CancelContext == /\ ~ctxDone
                 /\ ctxDone' = TRUE
                 /\ UNCHANGED <<vars, main, next, stage, slot, header, seen>>

Collect == \/ StartPool \/ SubmitFetch \/ FetchSubmitted \/ GiveUp \/ CallPoolWait
           \/ SentinelSubmitted \/ PoolWaitReturns \/ RangeBegins \/ RangeItem
           \/ RangeEnds \/ RestOfCollect \/ CollectReturns

-----------------------------------------------------------------------------
FetchNext == Collect \/ CancelContext \/ \E w \in WorkerIds : Worker(w)

FetchSpec == FetchInit /\ [][FetchNext]_allVars

\* The Go scheduler runs every goroutine that can run, and a fetch ends: the
\* client bounds its requests, its retries and their delays.
FetchFairness == WF_allVars(Collect) /\ \A w \in WorkerIds : WF_allVars(Worker(w))

FetchFairSpec == FetchSpec /\ FetchFairness

-----------------------------------------------------------------------------
(* Properties.                                                             *)

\* The ranges of the variables.
FetchTypeOK ==
    /\ TypeOK
    /\ main \in {"start", "submit", "submitting", "waiting", "range", "ranging",
                 "rest", "stopping", "returned"}
    /\ next \in 1 .. Fetches + 1
    /\ ctxDone \in BOOLEAN
    /\ stage \in [WorkerIds -> {"fetch", "copy", "end"}]
    /\ slot \in Seq([fetch : FetchIds, state : {"copying", "full"}])
    /\ header \in 0 .. Fetches
    /\ seen \in Seq([fetch : 0 .. Fetches, read : {"whole", "torn", "blank"}])

Processed == {seen[i].fetch : i \in {j \in DOMAIN seen : seen[j].read = "whole"}}

\* What the early return of Wait can cost a run: once the range is over, the
\* results that it missed or read in part are fewer than the workers of the pool.
LateResultsAreFew ==
    main \in {"rest", "stopping", "returned"} /\ next > Fetches
        => Cardinality(FetchIds \ Processed) < PoolSize

\* No result is processed twice, and the range reads only the last of its items
\* while it is being copied.
EachResultOnce ==
    /\ \A i, j \in DOMAIN seen :
          seen[i].fetch = seen[j].fetch /\ seen[i].read # "blank" => i = j
    /\ \A i \in DOMAIN seen : seen[i].read # "whole" => i = header

\* When Collect has returned and its limiter is closed, no fetch is running that
\* would wait for a token for ever; and the fetches whose results came too late
\* have all been made.
NoFetchOutlivesCollect ==
    main = "returned" => /\ Busy = {}
                         /\ next > Fetches => Appended = FetchIds

\* Collect gets through the phase, whenever its context is cancelled.
CollectEnds == <>(main = "returned")

-----------------------------------------------------------------------------
(* The inductive invariant, with that of the pool.                         *)

\* What Collect knows of the pool at each of its steps.
CollectIsOrdered ==
    /\ ~crashed
    /\ starts = IF main = "start" THEN 0 ELSE 1
    /\ pc[Main] \in CASE main = "submitting" -> {"submit"}
                      [] main = "waiting"    -> {"waitSubmit", "waiting"}
                      [] main = "stopping"   -> {"stopping"}
                      [] OTHER               -> {"idle"}
    /\ stopped <=> main \in {"stopping", "returned"}
    /\ main = "returned" => jobsClosed
    /\ main = "submitting" => next <= Fetches
    /\ main \in {"waiting", "range", "ranging", "rest"} => next > Fetches
    /\ main \in {"start", "submit", "submitting"} => sent = next - 1
    /\ main = "waiting" =>
          IF pc[Main] = "waitSubmit" THEN sent = Fetches
                                     ELSE sent = Fetches + 1 /\ ticket[Main] = sent
    /\ main \in {"range", "ranging", "rest", "stopping", "returned"} /\ next > Fetches =>
          sent = Fetches + 1 /\ sent \in done

\* The slots against the fetches: the last slot may be one that a fetch copies to,
\* the others are full, each belongs to a fetch of its own that is past its append,
\* and every such fetch has one.
SlotsAreFilled ==
    /\ \A w \in WorkerIds : stage[w] = "copy" =>
          /\ w \in Busy
          /\ run[w] \in FetchIds
          /\ Len(slot) > 0
          /\ slot[Len(slot)].fetch = run[w]
          /\ slot[Len(slot)].state = "copying"
    /\ \A i \in DOMAIN slot :
          /\ slot[i].state = "copying" => i = Len(slot) /\ ~Unlocked
          /\ \/ slot[i].fetch \in done
             \/ \E w \in Busy : run[w] = slot[i].fetch /\ stage[w] # "fetch"
    /\ \A i, j \in DOMAIN slot : slot[i].fetch = slot[j].fetch => i = j
    /\ \A f \in FetchIds :
          f \in done \/ (\E w \in Busy : run[w] = f /\ stage[w] = "end")
             => \E i \in DOMAIN slot : slot[i].fetch = f /\ slot[i].state = "full"

\* The fetches whose items the range has not read whole and will not read whole
\* unless their copying ends in time.
Unread ==
    {f \in FetchIds : ~\E i \in 1 .. header :
        /\ slot[i].fetch = f
        /\ IF i <= Len(seen) THEN seen[i].read = "whole" ELSE slot[i].state = "full"}

\* What the range has read against the slots.
RangeIsOrdered ==
    /\ main \in {"start", "submit", "submitting", "waiting", "range"} \/ next <= Fetches
          => header = 0
    /\ header <= Len(slot)
    /\ Len(seen) <= header
    /\ \A i \in DOMAIN seen :
          /\ seen[i].fetch = IF seen[i].read = "blank" THEN 0 ELSE slot[i].fetch
          /\ seen[i].read # "whole" => i = header
    /\ main \in {"rest", "stopping", "returned"} => Len(seen) = header
    /\ main \in {"ranging", "rest", "stopping", "returned"} /\ next > Fetches
          => Cardinality(Unread) < PoolSize

FetchInv ==
    /\ PoolInv
    /\ FetchTypeOK
    /\ CollectIsOrdered
    /\ SlotsAreFilled
    /\ RangeIsOrdered
=============================================================================
