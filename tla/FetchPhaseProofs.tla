-------------------------- MODULE FetchPhaseProofs --------------------------
(***************************************************************************)
(* What holds of a fetch phase of Collect for every number of fetches and  *)
(* of workers.  A step of the phase is a step of the pool, so the pool's   *)
(* invariant holds of it.                                                  *)
(***************************************************************************)
EXTENDS FetchPhase, WorkerPoolProofs

LEMMA MainIsClient == Main \in Clients /\ Clients = {Main}
  BY FetchAssumption

LEMMA FetchInitInv == FetchInit => FetchInv
  <1> SUFFICES ASSUME FetchInit PROVE FetchInv
    OBVIOUS
  <1> USE DEF FetchInit
  <1>1. PoolInv
    BY InitInv
  <1>2. FetchTypeOK
    <2>1. /\ slot \in Seq([fetch : FetchIds, state : {"copying", "full"}])
          /\ seen \in Seq([fetch : 0 .. Fetches, read : {"whole", "torn", "blank"}])
      OBVIOUS
    <2>2. header \in 0 .. Fetches /\ next \in 1 .. Fetches + 1
      BY FetchAssumption
    <2> QED
      BY <1>1, <2>1, <2>2 DEF FetchTypeOK, PoolInv
  <1>3. CollectIsOrdered
    BY MainIsClient DEF CollectIsOrdered, Init
  <1>4. SlotsAreFilled
    BY DEF SlotsAreFilled, Init, Busy
  <1>5. RangeIsOrdered
    BY DEF RangeIsOrdered
  <1> QED
    BY <1>1, <1>2, <1>3, <1>4, <1>5 DEF FetchInv

-----------------------------------------------------------------------------
(* The pool under Collect.                                                 *)

\* Collect's calls and the fetches are steps of the pool, or leave it alone.
LEMMA FetchIsPool == FetchInv /\ [FetchNext]_allVars => [Next]_vars
  <1> SUFFICES ASSUME FetchInv, [FetchNext]_allVars PROVE [Next]_vars
    OBVIOUS
  <1>1. ~crashed
    BY DEF FetchInv, CollectIsOrdered
  <1>2. ASSUME NEW w \in WorkerIds, Worker(w) PROVE [Next]_vars
    <2>1. WorkerStep(w) \/ UNCHANGED vars
      BY <1>2 DEF Worker, WorkerSelects, AppendLength, AppendElement, JobReturns, WorkerStep
    <2> QED
      BY <1>1, <2>1 DEF Next
  <1>3. CASE Collect
    <2>1. ClientStep(Main) \/ ClientCall(Main) \/ UNCHANGED vars
      BY <1>3 DEF Collect, StartPool, SubmitFetch, FetchSubmitted, GiveUp, CallPoolWait,
                  SentinelSubmitted, PoolWaitReturns, RangeBegins, RangeItem, RangeEnds,
                  RestOfCollect, CollectReturns, ClientStep, ClientCall
    <2> QED
      BY <1>1, <2>1, MainIsClient DEF Next
  <1>4. CASE CancelContext
    BY <1>4 DEF CancelContext
  <1> QED
    BY <1>2, <1>3, <1>4 DEF FetchNext, allVars

\* Whatever the fetches do, Collect finds the pool as it left it.
LEMMA WorkersKeepOrder ==
    ASSUME FetchInv, NEW w \in WorkerIds, Worker(w)
    PROVE  CollectIsOrdered'
  <1>1. UNCHANGED <<sent, starts, stopped, jobsClosed, pc, ticket, crashed, main, next>>
    BY DEF Worker, WorkerSelects, AppendLength, AppendElement, JobReturns, Take, Quit, Finish,
           queueVars, clientVars, vars, fetchVars
  <1>2. done \subseteq done'
    BY DEF Worker, WorkerSelects, AppendLength, AppendElement, JobReturns, Take, Quit, Finish,
           queueVars, clientVars, vars
  <1> QED
    BY <1>1, <1>2 DEF FetchInv, CollectIsOrdered

\* Each step of Collect leads to the next.
LEMMA CollectKeepsOrder ==
    ASSUME FetchInv, Collect
    PROVE  CollectIsOrdered'
  <1> USE MainIsClient, FetchAssumption
      DEF FetchInv, CollectIsOrdered, queueVars, workerVars, clientVars
  <1>1. /\ TypeOK /\ sent \in Nat /\ next \in 1 .. Fetches + 1
        /\ pc \in [Clients -> {"idle", "submit", "ctxSubmit", "ctxWait",
                               "waitSubmit", "waiting", "stopping"}]
        /\ ticket \in [Clients -> 0 .. sent]
    BY DEF FetchTypeOK, TypeOK
  <1>2. CASE StartPool
    BY <1>1, <1>2 DEF StartPool, Start
  <1>3. CASE SubmitFetch
    BY <1>1, <1>3 DEF SubmitFetch, CallSubmit, Call
  <1>4. CASE FetchSubmitted
    BY <1>1, <1>4 DEF FetchSubmitted, Enqueue, Submitting
  <1>5. CASE GiveUp
    BY <1>1, <1>5 DEF GiveUp, CallStop
  <1>6. CASE CallPoolWait
    BY <1>1, <1>6 DEF CallPoolWait, CallWait, Call
  <1>7. CASE SentinelSubmitted
    BY <1>1, <1>7 DEF SentinelSubmitted, Enqueue, Submitting, fetchVars
  <1>8. CASE PoolWaitReturns
    BY <1>1, <1>8 DEF PoolWaitReturns, WaitReturn
  <1>9. CASE RangeBegins \/ RangeItem \/ RangeEnds
    BY <1>1, <1>9 DEF RangeBegins, RangeItem, RangeEnds, vars
  <1>10. CASE RestOfCollect
    BY <1>1, <1>10 DEF RestOfCollect, CallStop
  <1>11. CASE CollectReturns
    BY <1>1, <1>11 DEF CollectReturns, StopReturn
  <1> QED
    BY <1>2, <1>3, <1>4, <1>5, <1>6, <1>7, <1>8, <1>9, <1>10, <1>11 DEF Collect

-----------------------------------------------------------------------------
(* The slots.                                                              *)

\* Nothing that concerns the slots happens.
LEMMA SlotsUntouched ==
    ASSUME FetchInv, Busy' = Busy, UNCHANGED <<run, done, stage, slot>>
    PROVE  SlotsAreFilled'
  BY DEF FetchInv, SlotsAreFilled, Unlocked

\* Before Start no worker is busy, and none is when Start returns.
LEMMA StartFindsNobodyBusy ==
    ASSUME FetchInv, StartPool
    PROVE  Busy' = Busy
  <1>1. Spawned = 0 /\ PoolSize \in Nat /\ WorkerIds \subseteq Nat \ {0}
    BY PoolSizeType, WorkerIdsType DEF FetchInv, CollectIsOrdered, StartPool, Spawned
  <1>2. \A w \in WorkerIds : worker[w] = "unborn"
    BY <1>1 DEF FetchInv, PoolInv
  <1>3. \A w \in WorkerIds : worker'[w] # "busy"
    BY <1>2 DEF StartPool, Start
  <1> QED
    BY <1>2, <1>3 DEF Busy

LEMMA CollectKeepsSlots ==
    ASSUME FetchInv, Collect \/ CancelContext
    PROVE  SlotsAreFilled'
  <1>1. UNCHANGED <<run, done, stage, slot>>
    BY DEF Collect, CancelContext, StartPool, SubmitFetch, FetchSubmitted, GiveUp, CallPoolWait,
           SentinelSubmitted, PoolWaitReturns, RangeBegins, RangeItem, RangeEnds,
           RestOfCollect, CollectReturns, Start, CallSubmit, CallWait, Call, Enqueue,
           CallStop, WaitReturn, StopReturn, workerVars, fetchVars, vars
  <1>2. Busy' = Busy
    <2>1. CASE StartPool
      BY <2>1, StartFindsNobodyBusy
    <2>2. CASE ~StartPool
      <3>1. UNCHANGED worker
        BY <2>2 DEF Collect, CancelContext, SubmitFetch, FetchSubmitted, GiveUp, CallPoolWait,
               SentinelSubmitted, PoolWaitReturns, RangeBegins, RangeItem, RangeEnds,
               RestOfCollect, CollectReturns, CallSubmit, CallWait, Call, Enqueue,
               CallStop, WaitReturn, StopReturn, workerVars, vars
      <3> QED
        BY <3>1 DEF Busy
    <2> QED
      BY <2>1, <2>2
  <1> QED
    BY <1>1, <1>2, SlotsUntouched

\* What a worker's step does to the set of the busy workers.
LEMMA SelectsBusy ==
    ASSUME FetchInv, NEW w \in WorkerIds, WorkerSelects(w)
    PROVE  /\ w \notin Busy
           /\ Busy' = Busy \/ Busy' = Busy \cup {w}
           /\ \A v \in Busy : run'[v] = run[v] /\ stage'[v] = stage[v]
           /\ \A v \in WorkerIds \ {w} : stage'[v] = stage[v]
           /\ stage'[w] = "fetch"
           /\ UNCHANGED <<done, slot>>
  <1>1. /\ worker \in [WorkerIds -> {"unborn", "select", "busy", "exited"}]
        /\ run \in [WorkerIds -> Nat]
        /\ stage \in [WorkerIds -> {"fetch", "copy", "end"}]
    BY DEF FetchInv, FetchTypeOK, TypeOK
  <1>2. w \notin Busy /\ UNCHANGED <<done, slot>>
    BY DEF WorkerSelects, Take, Quit, Busy
  <1>3. \A v \in WorkerIds : v # w => worker'[v] = worker[v] /\ run'[v] = run[v]
    BY <1>1 DEF WorkerSelects, Take, Quit
  <1>4. Busy' = Busy \/ Busy' = Busy \cup {w}
    BY <1>1, <1>2, <1>3 DEF Busy
  <1>5. \A v \in WorkerIds : stage'[v] = IF v = w THEN "fetch" ELSE stage[v]
    BY <1>1 DEF WorkerSelects
  <1> QED
    BY <1>2, <1>3, <1>4, <1>5 DEF Busy

\* A worker that receives a function or leaves had nothing to do with the slots.
LEMMA SelectsKeepsSlots ==
    ASSUME FetchInv, NEW w \in WorkerIds, WorkerSelects(w)
    PROVE  SlotsAreFilled'
  <1> USE DEF FetchInv, SlotsAreFilled
  <1>1. \A v \in WorkerIds : stage[v] = "copy" => v \in Busy
    OBVIOUS
  <1>2. Unlocked' <=> Unlocked
    BY <1>1, SelectsBusy DEF Unlocked
  <1>3. \A f : (\E v \in Busy : run[v] = f /\ stage[v] # "fetch")
                  => \E v \in Busy' : run'[v] = f /\ stage'[v] # "fetch"
    BY SelectsBusy
  <1>4. \A f : (\E v \in Busy' : run'[v] = f /\ stage'[v] = "end")
                  => \E v \in Busy : run[v] = f /\ stage[v] = "end"
    BY SelectsBusy
  <1>5. \A v \in WorkerIds : stage'[v] = "copy" =>
           v \in Busy /\ v \in Busy' /\ stage[v] = "copy" /\ run'[v] = run[v]
    BY <1>1, SelectsBusy
  <1>6. UNCHANGED <<done, slot>>
    BY SelectsBusy
  <1>7. \A v \in WorkerIds : stage'[v] = "copy" =>
           /\ v \in Busy'
           /\ run'[v] \in FetchIds
           /\ Len(slot') > 0
           /\ slot'[Len(slot')].fetch = run'[v]
           /\ slot'[Len(slot')].state = "copying"
    BY <1>5, <1>6
  <1>8. \A i \in DOMAIN slot' :
           /\ slot'[i].state = "copying" => i = Len(slot') /\ ~Unlocked'
           /\ \/ slot'[i].fetch \in done'
              \/ \E v \in Busy' : run'[v] = slot'[i].fetch /\ stage'[v] # "fetch"
    <2>1. \A i \in DOMAIN slot : slot[i].state = "copying" => i = Len(slot) /\ ~Unlocked'
      BY <1>2
    <2>2. ASSUME NEW i \in DOMAIN slot
          PROVE  \/ slot[i].fetch \in done
                 \/ \E v \in Busy' : run'[v] = slot[i].fetch /\ stage'[v] # "fetch"
      BY <1>3
    <2> QED
      BY <2>1, <2>2, <1>6
  <1>9. \A i, j \in DOMAIN slot' : slot'[i].fetch = slot'[j].fetch => i = j
    BY <1>6
  <1>10. \A f \in FetchIds :
            f \in done' \/ (\E v \in Busy' : run'[v] = f /\ stage'[v] = "end")
               => \E i \in DOMAIN slot' : slot'[i].fetch = f /\ slot'[i].state = "full"
    BY <1>4, <1>6
  <1> QED
    BY <1>7, <1>8, <1>9, <1>10

\* The shape of slots and stages, as the following proofs use it.
LEMMA SlotTypes ==
    ASSUME FetchInv
    PROVE  /\ Len(slot) \in Nat
           /\ DOMAIN slot = 1 .. Len(slot)
           /\ \A i \in DOMAIN slot : slot[i] \in [fetch : FetchIds, state : {"copying", "full"}]
           /\ stage \in [WorkerIds -> {"fetch", "copy", "end"}]
           /\ Busy \subseteq WorkerIds
           /\ \A v, w \in Busy : run[v] = run[w] => v = w
           /\ \A w \in Busy : run[w] \notin done
  <1>1. /\ slot \in Seq([fetch : FetchIds, state : {"copying", "full"}])
        /\ stage \in [WorkerIds -> {"fetch", "copy", "end"}]
    BY DEF FetchInv, FetchTypeOK
  <1>2. /\ \A v, w \in Busy : run[v] = run[w] => v = w
        /\ \A w \in Busy : run[w] \notin done
    BY DEF FetchInv, PoolInv, RunsOnce
  <1>3. Busy \subseteq WorkerIds
    BY DEF Busy
  <1>4. /\ Len(slot) \in Nat
        /\ DOMAIN slot = 1 .. Len(slot)
        /\ \A i \in DOMAIN slot : slot[i] \in [fetch : FetchIds, state : {"copying", "full"}]
    <2> DEFINE Slot == [fetch : FetchIds, state : {"copying", "full"}]
    <2>1. slot \in Seq(Slot)
      BY <1>1
    <2> HIDE DEF Slot
    <2>2. /\ Len(slot) \in Nat
          /\ DOMAIN slot = 1 .. Len(slot)
          /\ \A i \in DOMAIN slot : slot[i] \in Slot
      BY <2>1
    <2> QED
      BY <2>2 DEF Slot
  <1> QED
    BY <1>1, <1>2, <1>3, <1>4

\* The fetch whose length is stored gets a slot of its own behind full ones.
LEMMA AppendLengthKeepsSlots ==
    ASSUME FetchInv, NEW w \in WorkerIds, AppendLength(w)
    PROVE  SlotsAreFilled'
  <1> DEFINE L == Len(slot)
  <1>1. /\ w \in Busy /\ run[w] \in FetchIds /\ stage[w] = "fetch"
        /\ \A v \in WorkerIds : stage[v] # "copy"
        /\ Busy' = Busy /\ UNCHANGED <<run, done>>
    BY DEF AppendLength, Fetching, Unlocked, Busy, vars
  <1>2. \A v \in WorkerIds : stage'[v] = IF v = w THEN "copy" ELSE stage[v]
    BY SlotTypes DEF AppendLength
  <1>3. /\ Len(slot') = L + 1 /\ DOMAIN slot' = 1 .. (L + 1)
        /\ \A i \in 1 .. L : slot'[i] = slot[i]
        /\ slot'[L + 1].fetch = run[w] /\ slot'[L + 1].state = "copying"
    <2>1. slot \in Seq([fetch : FetchIds, state : {"copying", "full"}])
      BY DEF FetchInv, FetchTypeOK
    <2> QED
      BY <2>1, <1>1 DEF AppendLength
  <1>4. /\ \A i \in 1 .. L :
              /\ slot[i].state = "full"
              /\ \/ slot[i].fetch \in done
                 \/ \E v \in Busy : run[v] = slot[i].fetch /\ stage[v] # "fetch"
        /\ \A i, j \in 1 .. L : slot[i].fetch = slot[j].fetch => i = j
        /\ \A f \in FetchIds :
              f \in done \/ (\E v \in Busy : run[v] = f /\ stage[v] = "end")
                 => \E i \in 1 .. L : slot[i].fetch = f /\ slot[i].state = "full"
    BY <1>1, SlotTypes DEF FetchInv, SlotsAreFilled, Unlocked
  <1>5. L \in Nat
    BY SlotTypes
  <1> HIDE DEF L
  <1>6. \A v \in WorkerIds : stage'[v] = "copy" =>
           /\ v \in Busy'
           /\ run'[v] \in FetchIds
           /\ Len(slot') > 0
           /\ slot'[Len(slot')].fetch = run'[v]
           /\ slot'[Len(slot')].state = "copying"
    BY <1>1, <1>2, <1>3, <1>5
  <1>7. ~Unlocked'
    BY <1>2 DEF Unlocked
  <1>8. ASSUME NEW i \in DOMAIN slot'
        PROVE  /\ slot'[i].state = "copying" => i = Len(slot')
               /\ \/ slot'[i].fetch \in done'
                  \/ \E v \in Busy' : run'[v] = slot'[i].fetch /\ stage'[v] # "fetch"
    <2>1. CASE i = L + 1
      BY <2>1, <1>1, <1>2, <1>3
    <2>2. CASE i \in 1 .. L
      <3>1. slot'[i].state # "copying"
        BY <2>2, <1>3, <1>4
      <3>2. \/ slot[i].fetch \in done
            \/ \E v \in Busy : run[v] = slot[i].fetch /\ stage'[v] # "fetch"
        BY <2>2, <1>1, <1>2, <1>4, SlotTypes
      <3> QED
        BY <2>2, <3>1, <3>2, <1>1, <1>3
    <2> QED
      BY <2>1, <2>2, <1>3, <1>5
  <1>9. ASSUME NEW i \in DOMAIN slot', NEW j \in DOMAIN slot', slot'[i].fetch = slot'[j].fetch
        PROVE  i = j
    <2>1. \A k \in 1 .. L : slot[k].fetch # run[w]
      BY <1>1, <1>4, SlotTypes
    <2> QED
      BY <1>3, <1>4, <1>5, <1>9, <2>1
  <1>10. ASSUME NEW f \in FetchIds,
                f \in done' \/ (\E v \in Busy' : run'[v] = f /\ stage'[v] = "end")
         PROVE  \E i \in DOMAIN slot' : slot'[i].fetch = f /\ slot'[i].state = "full"
    <2>1. f \in done \/ (\E v \in Busy : run[v] = f /\ stage[v] = "end")
      BY <1>1, <1>2, <1>10, SlotTypes
    <2>2. PICK i \in 1 .. L : slot[i].fetch = f /\ slot[i].state = "full"
      BY <2>1, <1>4
    <2> QED
      BY <2>2, <1>3, <1>5
  <1> QED
    BY <1>6, <1>7, <1>8, <1>9, <1>10 DEF SlotsAreFilled

\* The fetch that stores its element is the only one that holds channelMu.
LEMMA AppendElementKeepsSlots ==
    ASSUME FetchInv, NEW w \in WorkerIds, AppendElement(w)
    PROVE  SlotsAreFilled'
  <1> DEFINE L == Len(slot)
  <1>1. /\ stage[w] = "copy"
        /\ Busy' = Busy /\ UNCHANGED <<run, done>>
    BY DEF AppendElement, Busy, vars
  <1>2. \A v \in WorkerIds : stage'[v] = IF v = w THEN "end" ELSE stage[v]
    BY SlotTypes DEF AppendElement
  <1>3. /\ w \in Busy /\ run[w] \in FetchIds /\ L > 0
        /\ slot[L].fetch = run[w]
        /\ \A v \in WorkerIds : stage[v] = "copy" => v = w
    BY <1>1, SlotTypes DEF FetchInv, SlotsAreFilled
  <1>4. /\ Len(slot') = L /\ DOMAIN slot' = 1 .. L
        /\ \A i \in 1 .. L : /\ slot'[i].fetch = slot[i].fetch
                             /\ slot'[i].state = IF i = L THEN "full" ELSE slot[i].state
    BY <1>3, SlotTypes DEF AppendElement
  <1>5. /\ \A i \in 1 .. L :
              /\ slot[i].state = "copying" => i = L
              /\ \/ slot[i].fetch \in done
                 \/ \E v \in Busy : run[v] = slot[i].fetch /\ stage[v] # "fetch"
        /\ \A i, j \in 1 .. L : slot[i].fetch = slot[j].fetch => i = j
        /\ \A f \in FetchIds :
              f \in done \/ (\E v \in Busy : run[v] = f /\ stage[v] = "end")
                 => \E i \in 1 .. L : slot[i].fetch = f /\ slot[i].state = "full"
    BY SlotTypes DEF FetchInv, SlotsAreFilled
  <1>6. L \in Nat
    BY SlotTypes
  <1> HIDE DEF L
  <1>7. \A v \in WorkerIds : stage'[v] # "copy"
    BY <1>2, <1>3
  <1>8. ASSUME NEW i \in DOMAIN slot'
        PROVE  /\ slot'[i].state # "copying"
               /\ \/ slot'[i].fetch \in done'
                  \/ \E v \in Busy' : run'[v] = slot'[i].fetch /\ stage'[v] # "fetch"
    <2>1. \/ slot[i].fetch \in done
          \/ \E v \in Busy : run[v] = slot[i].fetch /\ stage'[v] # "fetch"
      BY <1>2, <1>4, <1>5, SlotTypes
    <2>2. slot'[i].state # "copying"
      BY <1>4, <1>5
    <2> QED
      BY <2>1, <2>2, <1>1, <1>4
  <1>9. \A i, j \in DOMAIN slot' : slot'[i].fetch = slot'[j].fetch => i = j
    BY <1>4, <1>5
  <1>10. ASSUME NEW f \in FetchIds,
                f \in done' \/ (\E v \in Busy' : run'[v] = f /\ stage'[v] = "end")
         PROVE  \E i \in DOMAIN slot' : slot'[i].fetch = f /\ slot'[i].state = "full"
    <2>1. CASE f = run[w]
      BY <2>1, <1>3, <1>4, <1>6
    <2>2. CASE f # run[w]
      <3>1. f \in done \/ (\E v \in Busy : run[v] = f /\ stage[v] = "end")
        BY <2>2, <1>1, <1>2, <1>10, SlotTypes
      <3>2. PICK i \in 1 .. L : slot[i].fetch = f /\ slot[i].state = "full"
        BY <3>1, <1>5
      <3> QED
        BY <3>2, <1>4
    <2> QED
      BY <2>1, <2>2
  <1> QED
    BY <1>7, <1>8, <1>9, <1>10 DEF SlotsAreFilled

\* A fetch returns after its append.
LEMMA ReturnKeepsSlots ==
    ASSUME FetchInv, NEW w \in WorkerIds, JobReturns(w)
    PROVE  SlotsAreFilled'
  <1>1. /\ w \in Busy
        /\ run[w] \in FetchIds => stage[w] = "end"
        /\ done' = done \cup {run[w]}
        /\ UNCHANGED <<run, stage, slot>>
    BY DEF JobReturns, Finish, Busy, fetchVars
  <1>2. Busy' = Busy \ {w}
    <2>1. worker \in [WorkerIds -> {"unborn", "select", "busy", "exited"}]
      BY DEF FetchInv, FetchTypeOK, TypeOK
    <2> QED
      BY <2>1 DEF JobReturns, Finish, Busy
  <1> USE DEF FetchInv, SlotsAreFilled
  <1>3. stage[w] # "copy"
    BY <1>1
  <1>4. \A v \in WorkerIds : stage'[v] = "copy" =>
           /\ v \in Busy'
           /\ run'[v] \in FetchIds
           /\ Len(slot') > 0
           /\ slot'[Len(slot')].fetch = run'[v]
           /\ slot'[Len(slot')].state = "copying"
    BY <1>1, <1>2, <1>3
  <1>5. ASSUME NEW i \in DOMAIN slot
        PROVE  \/ slot[i].fetch \in done'
               \/ \E v \in Busy' : run[v] = slot[i].fetch /\ stage[v] # "fetch"
    BY <1>1, <1>2
  <1>6. ASSUME NEW f \in FetchIds,
               f \in done' \/ (\E v \in Busy' : run[v] = f /\ stage[v] = "end")
        PROVE  \E i \in DOMAIN slot : slot[i].fetch = f /\ slot[i].state = "full"
    BY <1>1, <1>2, <1>6
  <1>7. \A i \in DOMAIN slot : slot[i].state = "copying" => i = Len(slot) /\ ~Unlocked'
    BY <1>1 DEF Unlocked
  <1>8. \A i \in DOMAIN slot' :
           /\ slot'[i].state = "copying" => i = Len(slot') /\ ~Unlocked'
           /\ \/ slot'[i].fetch \in done'
              \/ \E v \in Busy' : run'[v] = slot'[i].fetch /\ stage'[v] # "fetch"
    BY <1>1, <1>5, <1>7
  <1>9. \A f \in FetchIds :
           f \in done' \/ (\E v \in Busy' : run'[v] = f /\ stage'[v] = "end")
              => \E i \in DOMAIN slot' : slot'[i].fetch = f /\ slot'[i].state = "full"
    BY <1>1, <1>6
  <1>10. \A i, j \in DOMAIN slot' : slot'[i].fetch = slot'[j].fetch => i = j
    BY <1>1
  <1> QED
    BY <1>4, <1>8, <1>9, <1>10

-----------------------------------------------------------------------------
(* The range over the slots.                                               *)

\* There are no more slots than fetches.
LEMMA SlotsAreBounded ==
    ASSUME FetchInv
    PROVE  Len(slot) <= Fetches
  <1> DEFINE F == [i \in 1 .. Len(slot) |-> slot[i].fetch]
  <1>1. F \in Injection(1 .. Len(slot), 1 .. Fetches)
    <2>1. F \in [1 .. Len(slot) -> 1 .. Fetches]
      BY SlotTypes DEF FetchIds
    <2>2. \A i, j \in 1 .. Len(slot) : F[i] = F[j] => i = j
      BY SlotTypes DEF FetchInv, SlotsAreFilled
    <2> QED
      BY <2>1, <2>2 DEF Injection, IsInjective
  <1>2. Len(slot) \in Nat /\ Fetches \in Nat
    BY SlotTypes, FetchAssumption
  <1> HIDE DEF F
  <1>3. /\ IsFiniteSet(1 .. Fetches)
        /\ Cardinality(1 .. Fetches) = Fetches
        /\ Cardinality(1 .. Len(slot)) = Len(slot)
    <2>1. \A n \in Nat : IsFiniteSet(1 .. n) /\ Cardinality(1 .. n) = n
      <3> TAKE n \in Nat
      <3>1. IsFiniteSet(1 .. n) /\ Cardinality(1 .. n) = IF 1 > n THEN 0 ELSE n - 1 + 1
        BY FS_Interval
      <3> QED
        BY <3>1
    <2> QED
      BY <1>2, <2>1
  <1> QED
    BY <1>1, <1>3, FS_Injection

\* Reading more leaves no more unread.
LEMMA FewStayUnread ==
    ASSUME NEW S, NEW T \in SUBSET S, S \subseteq FetchIds, Cardinality(S) < PoolSize
    PROVE  Cardinality(T) < PoolSize
  <1>1. IsFiniteSet(FetchIds)
    BY FetchAssumption, FS_Interval DEF FetchIds
  <1>2. IsFiniteSet(S) /\ IsFiniteSet(T) /\ Cardinality(T) <= Cardinality(S)
    BY <1>1, FS_Subset
  <1>3. Cardinality(S) \in Nat /\ Cardinality(T) \in Nat
    BY <1>2, FS_CardinalityType
  <1> QED
    BY <1>2, <1>3, PoolSizeType

\* The shape of what the range has read.
LEMMA SeenTypes ==
    ASSUME FetchInv
    PROVE  /\ Len(seen) \in Nat /\ DOMAIN seen = 1 .. Len(seen)
           /\ \A i \in DOMAIN seen :
                 seen[i] \in [fetch : 0 .. Fetches, read : {"whole", "torn", "blank"}]
           /\ header \in Nat
           /\ next \in Nat
           /\ Fetches \in Nat
  <1> DEFINE Item == [fetch : 0 .. Fetches, read : {"whole", "torn", "blank"}]
  <1>1. seen \in Seq(Item) /\ header \in 0 .. Fetches /\ next \in 1 .. Fetches + 1
    BY DEF FetchInv, FetchTypeOK
  <1>2. header \in Nat /\ next \in Nat /\ Fetches \in Nat
    BY <1>1, FetchAssumption
  <1> HIDE DEF Item
  <1>3. /\ Len(seen) \in Nat /\ DOMAIN seen = 1 .. Len(seen)
        /\ \A i \in DOMAIN seen : seen[i] \in Item
    BY <1>1
  <1> QED
    BY <1>2, <1>3 DEF Item

\* The fetches may lengthen the slice and fill its last slot.
LEMMA RangeUnderWorkers ==
    ASSUME FetchInv, UNCHANGED <<main, next, header, seen>>,
           Len(slot') \in Nat, Len(slot) <= Len(slot'),
           \A i \in 1 .. Len(slot) :
              /\ slot'[i].fetch = slot[i].fetch
              /\ slot[i].state = "full" => slot'[i].state = "full"
    PROVE  RangeIsOrdered'
  <1>1. /\ main \in {"start", "submit", "submitting", "waiting", "range"} \/ next <= Fetches
              => header = 0
        /\ header <= Len(slot)
        /\ Len(seen) <= header
        /\ \A i \in DOMAIN seen :
              /\ seen[i].fetch = IF seen[i].read = "blank" THEN 0 ELSE slot[i].fetch
              /\ seen[i].read # "whole" => i = header
        /\ main \in {"rest", "stopping", "returned"} => Len(seen) = header
        /\ main \in {"ranging", "rest", "stopping", "returned"} /\ next > Fetches
              => Cardinality(Unread) < PoolSize
    BY DEF FetchInv, RangeIsOrdered
  <1>2. /\ header \in Nat /\ Len(slot) \in Nat
        /\ Len(seen) \in Nat /\ DOMAIN seen = 1 .. Len(seen)
        /\ header <= Len(slot) /\ Len(seen) <= header
    <2>1. header <= Len(slot) /\ Len(seen) <= header
      BY <1>1
    <2> QED
      BY <2>1, SlotTypes, SeenTypes
  <1>3. header' <= Len(slot')
    BY <1>2
  <1>4. \A i \in DOMAIN seen : i \in 1 .. Len(slot) /\ slot'[i].fetch = slot[i].fetch
    BY <1>2
  <1>5. Unread' \subseteq Unread
    <2>1. ASSUME NEW f \in FetchIds, NEW i \in 1 .. header,
                 slot[i].fetch = f,
                 IF i <= Len(seen) THEN seen[i].read = "whole" ELSE slot[i].state = "full"
          PROVE  /\ slot'[i].fetch = f
                 /\ IF i <= Len(seen) THEN seen[i].read = "whole" ELSE slot'[i].state = "full"
      <3>1. i \in 1 .. Len(slot)
        BY <1>2
      <3> QED
        BY <2>1, <3>1
    <2>2. SUFFICES ASSUME NEW f \in FetchIds, f \notin Unread PROVE f \notin Unread'
      BY DEF Unread
    <2>3. PICK i \in 1 .. header :
             /\ slot[i].fetch = f
             /\ IF i <= Len(seen) THEN seen[i].read = "whole" ELSE slot[i].state = "full"
      BY <2>2 DEF Unread
    <2>4. /\ slot'[i].fetch = f
          /\ IF i <= Len(seen') THEN seen'[i].read = "whole" ELSE slot'[i].state = "full"
      BY <2>1, <2>3
    <2> QED
      BY <2>4 DEF Unread
  <1>6. Unread \subseteq FetchIds
    BY DEF Unread
  <1>7. Cardinality(Unread) < PoolSize => Cardinality(Unread') < PoolSize
    BY <1>5, <1>6, FewStayUnread
  <1> QED
    BY <1>1, <1>3, <1>4, <1>7 DEF RangeIsOrdered

LEMMA WorkersKeepRange ==
    ASSUME FetchInv, NEW w \in WorkerIds, Worker(w)
    PROVE  RangeIsOrdered'
  <1>1. UNCHANGED <<main, next, header, seen>>
    BY DEF Worker, WorkerSelects, AppendLength, AppendElement, JobReturns, fetchVars
  <1>2. CASE AppendLength(w)
    <2>1. slot \in Seq([fetch : FetchIds, state : {"copying", "full"}]) /\ run[w] \in FetchIds
      BY <1>2 DEF FetchInv, FetchTypeOK, AppendLength, Fetching
    <2>2. Len(slot') = Len(slot) + 1 /\ \A i \in 1 .. Len(slot) : slot'[i] = slot[i]
      BY <1>2, <2>1 DEF AppendLength
    <2> QED
      BY <1>1, <2>2, SlotTypes, RangeUnderWorkers
  <1>3. CASE AppendElement(w)
    <2>1. /\ Len(slot') = Len(slot)
          /\ \A i \in 1 .. Len(slot) :
                /\ slot'[i].fetch = slot[i].fetch
                /\ slot[i].state = "full" => slot'[i].state = "full"
      BY <1>3, SlotTypes DEF AppendElement
    <2> QED
      BY <1>1, <2>1, SlotTypes, RangeUnderWorkers
  <1>4. CASE WorkerSelects(w) \/ JobReturns(w)
    <2>1. slot' = slot
      BY <1>4 DEF WorkerSelects, JobReturns, fetchVars
    <2> QED
      BY <1>1, <2>1, SlotTypes, RangeUnderWorkers
  <1> QED
    BY <1>2, <1>3, <1>4 DEF Worker

\* Before the range begins, and after it has ended, Collect leaves it alone.
LEMMA CollectKeepsRange ==
    ASSUME FetchInv, Collect \/ CancelContext, ~RangeBegins, ~RangeItem, ~RangeEnds
    PROVE  RangeIsOrdered'
  <1>1. UNCHANGED <<slot, header, seen>>
    BY DEF Collect, CancelContext, StartPool, SubmitFetch, FetchSubmitted, GiveUp, CallPoolWait,
           SentinelSubmitted, PoolWaitReturns, RestOfCollect, CollectReturns, fetchVars
  <1>2. Unread' = Unread
    BY <1>1 DEF Unread
  <1>3. /\ main \in {"start", "submit", "submitting", "waiting", "range"} \/ next <= Fetches
              => header = 0
        /\ main \in {"rest", "stopping", "returned"} => Len(seen) = header
        /\ main \in {"ranging", "rest", "stopping", "returned"} /\ next > Fetches
              => Cardinality(Unread) < PoolSize
        /\ Len(seen) <= header
    BY DEF FetchInv, RangeIsOrdered
  <1>4. /\ Len(seen) \in Nat /\ header \in Nat /\ next \in Nat /\ Fetches \in Nat
    BY SeenTypes
  <1>5. /\ main' \in {"start", "submit", "submitting", "waiting", "range"} \/ next' <= Fetches
              => header = 0
        /\ main' \in {"rest", "stopping", "returned"} => Len(seen) = header
        /\ main' \in {"ranging", "rest", "stopping", "returned"} /\ next' > Fetches
              => Cardinality(Unread) < PoolSize
    <2>1. CASE StartPool \/ SubmitFetch \/ FetchSubmitted \/ CallPoolWait
                  \/ SentinelSubmitted \/ PoolWaitReturns
      <3>1. /\ main \in {"start", "submit", "submitting", "waiting", "range"}
            /\ main' \in {"start", "submit", "submitting", "waiting", "range"}
        BY <2>1 DEF StartPool, SubmitFetch, FetchSubmitted, CallPoolWait,
                    SentinelSubmitted, PoolWaitReturns, fetchVars
      <3> QED
        BY <1>3, <3>1
    <2>2. CASE GiveUp
      <3>1. main = "submit" /\ main' = "stopping" /\ next' = next /\ next <= Fetches
        BY <2>2 DEF GiveUp
      <3>2. header = 0 /\ Len(seen) = 0
        BY <1>3, <1>4, <3>1
      <3> QED
        BY <3>1, <3>2, <1>4
    <2>3. CASE RestOfCollect \/ CollectReturns
      <3>1. /\ main \in {"rest", "stopping"} /\ main' \in {"stopping", "returned"}
            /\ next' = next
        BY <2>3 DEF RestOfCollect, CollectReturns
      <3> QED
        BY <1>3, <3>1
    <2>4. CASE CancelContext
      BY <1>3, <2>4 DEF CancelContext
    <2> QED
      BY <2>1, <2>2, <2>3, <2>4 DEF Collect
  <1>6. /\ header <= Len(slot) /\ Len(seen) <= header
        /\ \A i \in DOMAIN seen :
              /\ seen[i].fetch = IF seen[i].read = "blank" THEN 0 ELSE slot[i].fetch
              /\ seen[i].read # "whole" => i = header
    BY DEF FetchInv, RangeIsOrdered
  <1> QED
    BY <1>1, <1>2, <1>5, <1>6 DEF RangeIsOrdered

\* What the pool's Wait has guaranteed when the range begins: all but fewer
\* fetches than workers have their items in full slots.
LEMMA RangeBeginsWithFewUnread ==
    ASSUME FetchInv, RangeBegins
    PROVE  RangeIsOrdered'
  <1>1. /\ main = "range" /\ main' = "ranging" /\ header' = Len(slot)
        /\ UNCHANGED <<next, slot, seen>>
    BY DEF RangeBegins
  <1>2. Len(seen) = 0 /\ Len(slot) \in Nat /\ DOMAIN seen = {}
    <2>1. header = 0 /\ Len(seen) <= header
      BY <1>1 DEF FetchInv, RangeIsOrdered
    <2> QED
      BY <2>1, SeenTypes, SlotTypes
  <1>3. next > Fetches /\ next \in Nat /\ Fetches \in Nat
    BY <1>1, SeenTypes DEF FetchInv, CollectIsOrdered
  <1>4. Cardinality((1 .. Fetches + 1) \ done) < PoolSize
    <2>1. Fetches + 1 \in done /\ starts = 1
      BY <1>1, <1>3 DEF FetchInv, CollectIsOrdered
    <2>2. Spawned = PoolSize
      BY <2>1, PoolSizeType DEF Spawned
    <2>3. PoolInv
      BY DEF FetchInv
    <2> QED
      BY <2>1, <2>2, <2>3, FewUnfinished
  <1>5. Unread' \subseteq (1 .. Fetches + 1) \ done
    <2> SUFFICES ASSUME NEW f \in FetchIds, f \in done PROVE f \notin Unread'
      BY <1>3 DEF Unread, FetchIds
    <2>1. PICK i \in DOMAIN slot : slot[i].fetch = f /\ slot[i].state = "full"
      BY DEF FetchInv, SlotsAreFilled
    <2>2. i \in 1 .. header' /\ ~(i <= Len(seen))
      BY <1>1, <1>2, SlotTypes
    <2> QED
      BY <1>1, <2>1, <2>2 DEF Unread
  <1>6. Cardinality(Unread') < PoolSize
    <2>1. Unread' = Unread' \cap FetchIds /\ Unread' \subseteq FetchIds
      BY DEF Unread
    <2>2. Unread' \subseteq FetchIds \ done
      BY <2>1, <1>5
    <2>3. Cardinality(FetchIds \ done) < PoolSize
      <3>1. IsFiniteSet((1 .. Fetches + 1) \ done)
        <4>1. IsFiniteSet(1 .. Fetches + 1)
          BY <1>3, FS_Interval
        <4> QED
          BY <4>1, FS_Subset
      <3>2. FetchIds \ done \subseteq (1 .. Fetches + 1) \ done
        BY <1>3 DEF FetchIds
      <3>3. IsFiniteSet(FetchIds \ done)
            /\ Cardinality(FetchIds \ done) <= Cardinality((1 .. Fetches + 1) \ done)
        BY <3>1, <3>2, FS_Subset
      <3>4. Cardinality(FetchIds \ done) \in Nat /\ Cardinality((1 .. Fetches + 1) \ done) \in Nat
        BY <3>1, <3>3, FS_CardinalityType
      <3> QED
        BY <3>3, <3>4, <1>4, PoolSizeType
    <2> QED
      BY <2>2, <2>3, FewStayUnread
  <1>7. header' <= Len(slot') /\ Len(seen') <= header'
    BY <1>1, <1>2
  <1>8. \A i \in DOMAIN seen' :
           /\ seen'[i].fetch = IF seen'[i].read = "blank" THEN 0 ELSE slot'[i].fetch
           /\ seen'[i].read # "whole" => i = header'
    BY <1>1, <1>2
  <1>9. ~(main' \in {"start", "submit", "submitting", "waiting", "range"} \/ next' <= Fetches)
    BY <1>1, <1>3
  <1> QED
    BY <1>1, <1>6, <1>7, <1>8, <1>9 DEF RangeIsOrdered

\* What the range can read from the next slot.
LEMMA ReadingTypes ==
    ASSUME FetchInv, RangeItem
    PROVE  \E r \in [fetch : 0 .. Fetches, read : {"whole", "torn", "blank"}] :
              /\ seen' = Append(seen, r)
              /\ r.fetch = IF r.read = "blank" THEN 0 ELSE slot[Len(seen) + 1].fetch
              /\ Len(seen) + 1 \in DOMAIN slot /\ Len(seen) + 1 <= header
              /\ slot[Len(seen) + 1].state = "full" => r.read = "whole"
              /\ r.read # "whole" => Len(seen) + 1 = header
  <1> DEFINE k == Len(seen) + 1
  <1>1. /\ k \in Nat /\ header \in Nat /\ Len(slot) \in Nat
        /\ 0 < k /\ k <= header /\ header <= Len(slot)
    <2>1. header <= Len(slot)
      BY DEF FetchInv, RangeIsOrdered
    <2>2. Len(seen) < header
      BY DEF RangeItem
    <2> QED
      BY <2>1, <2>2, SeenTypes, SlotTypes
  <1>2. k \in DOMAIN slot
    BY <1>1, SlotTypes
  <1>3. slot[k].fetch \in 1 .. Fetches /\ slot[k].state \in {"copying", "full"}
    BY <1>2, SlotTypes DEF FetchIds
  <1>4. slot[k].state = "copying" => k = header
    <2>1. slot[k].state = "copying" => k = Len(slot)
      BY <1>2 DEF FetchInv, SlotsAreFilled
    <2> QED
      BY <2>1, <1>1
  <1>5. PICK r \in Readings(slot[k]) : seen' = Append(seen, r)
    BY DEF RangeItem
  <1>6. /\ r \in [fetch : 0 .. Fetches, read : {"whole", "torn", "blank"}]
        /\ r.fetch = IF r.read = "blank" THEN 0 ELSE slot[k].fetch
        /\ slot[k].state = "full" => r.read = "whole"
        /\ r.read # "whole" => slot[k].state = "copying"
    <2>1. CASE slot[k].state = "full"
      <3>1. r = [fetch |-> slot[k].fetch, read |-> "whole"]
        BY <2>1, <1>5 DEF Readings
      <3> QED
        BY <2>1, <3>1, <1>3, SeenTypes
    <2>2. CASE slot[k].state = "copying"
      <3>1. \/ r = [fetch |-> 0, read |-> "blank"]
            \/ r = [fetch |-> slot[k].fetch, read |-> "torn"]
        BY <2>2, <1>5 DEF Readings
      <3> QED
        BY <2>2, <3>1, <1>3, SeenTypes
    <2> QED
      BY <2>1, <2>2, <1>3
  <1> QED
    BY <1>1, <1>2, <1>4, <1>5, <1>6

LEMMA RangeItemKeepsRange ==
    ASSUME FetchInv, RangeItem
    PROVE  RangeIsOrdered'
  <1> DEFINE k == Len(seen) + 1
  <1>1. PICK r \in [fetch : 0 .. Fetches, read : {"whole", "torn", "blank"}] :
           /\ seen' = Append(seen, r)
           /\ r.fetch = IF r.read = "blank" THEN 0 ELSE slot[k].fetch
           /\ k \in DOMAIN slot /\ k <= header
           /\ slot[k].state = "full" => r.read = "whole"
           /\ r.read # "whole" => k = header
    BY ReadingTypes
  <1>2. /\ main = "ranging" /\ next > Fetches
        /\ UNCHANGED <<main, next, slot, header>>
    BY DEF RangeItem, FetchInv, CollectIsOrdered
  <1>3. /\ Len(seen) \in Nat /\ k \in Nat /\ header \in Nat /\ next \in Nat /\ Fetches \in Nat
        /\ Len(seen') = k /\ DOMAIN seen' = 1 .. k
        /\ \A i \in 1 .. Len(seen) : seen'[i] = seen[i]
        /\ seen'[k] = r
    <2> DEFINE Item == [fetch : 0 .. Fetches, read : {"whole", "torn", "blank"}]
    <2>1. seen \in Seq(Item)
      BY DEF FetchInv, FetchTypeOK
    <2> HIDE DEF Item
    <2>2. /\ Len(seen') = k /\ DOMAIN seen' = 1 .. k
          /\ \A i \in 1 .. Len(seen) : seen'[i] = seen[i]
          /\ seen'[k] = r
      BY <2>1, <1>1
    <2> QED
      BY <2>2, SeenTypes
  <1>4. /\ header <= Len(slot)
        /\ Cardinality(Unread) < PoolSize
        /\ \A i \in 1 .. Len(seen) :
              /\ seen[i].fetch = IF seen[i].read = "blank" THEN 0 ELSE slot[i].fetch
              /\ seen[i].read # "whole" => i = header
    BY <1>2, SeenTypes DEF FetchInv, RangeIsOrdered
  <1>5. \A i \in DOMAIN seen' :
           /\ seen'[i].fetch = IF seen'[i].read = "blank" THEN 0 ELSE slot'[i].fetch
           /\ seen'[i].read # "whole" => i = header'
    <2> SUFFICES ASSUME NEW i \in 1 .. k
                 PROVE  /\ seen'[i].fetch = IF seen'[i].read = "blank" THEN 0 ELSE slot[i].fetch
                        /\ seen'[i].read # "whole" => i = header
      BY <1>2, <1>3
    <2>1. CASE i = k
      BY <2>1, <1>1, <1>3
    <2>2. CASE i \in 1 .. Len(seen)
      BY <2>2, <1>3, <1>4
    <2> QED
      BY <2>1, <2>2, <1>3
  <1>6. Unread' \subseteq Unread
    <2> SUFFICES ASSUME NEW f \in FetchIds, f \notin Unread PROVE f \notin Unread'
      BY DEF Unread
    <2>1. PICK i \in 1 .. header :
             /\ slot[i].fetch = f
             /\ IF i <= Len(seen) THEN seen[i].read = "whole" ELSE slot[i].state = "full"
      BY DEF Unread
    <2>2. IF i <= Len(seen') THEN seen'[i].read = "whole" ELSE slot[i].state = "full"
      <3>1. CASE i <= Len(seen)
        <4>1. i \in 1 .. Len(seen)
          BY <3>1, <1>3
        <4> QED
          BY <2>1, <4>1, <1>3
      <3>2. CASE i = k
        BY <2>1, <3>2, <1>1, <1>3
      <3>3. CASE i > k
        BY <2>1, <3>3, <1>3
      <3> QED
        BY <3>1, <3>2, <3>3, <1>3
    <2> QED
      BY <2>1, <2>2, <1>2 DEF Unread
  <1>7. Cardinality(Unread') < PoolSize
    <2>1. Unread \subseteq FetchIds
      BY DEF Unread
    <2> QED
      BY <2>1, <1>4, <1>6, FewStayUnread
  <1>8. header' <= Len(slot') /\ Len(seen') <= header'
    BY <1>1, <1>2, <1>3, <1>4
  <1>9. ~(main' \in {"start", "submit", "submitting", "waiting", "range"} \/ next' <= Fetches)
    BY <1>2, <1>3
  <1> QED
    BY <1>2, <1>5, <1>7, <1>8, <1>9 DEF RangeIsOrdered

LEMMA RangeEndsKeepsRange ==
    ASSUME FetchInv, RangeEnds
    PROVE  RangeIsOrdered'
  <1>1. /\ main = "ranging" /\ main' = "rest" /\ Len(seen) = header
        /\ UNCHANGED <<next, slot, header, seen>>
    BY DEF RangeEnds
  <1>2. Unread' = Unread
    BY <1>1 DEF Unread
  <1>3. ~(next <= Fetches)
    <2>1. next > Fetches
      BY <1>1 DEF FetchInv, CollectIsOrdered
    <2> QED
      BY <2>1, SeenTypes
  <1>4. /\ header <= Len(slot) /\ Len(seen) <= header
        /\ \A i \in DOMAIN seen :
              /\ seen[i].fetch = IF seen[i].read = "blank" THEN 0 ELSE slot[i].fetch
              /\ seen[i].read # "whole" => i = header
        /\ main \in {"ranging", "rest", "stopping", "returned"} /\ next > Fetches
              => Cardinality(Unread) < PoolSize
    BY DEF FetchInv, RangeIsOrdered
  <1> QED
    BY <1>1, <1>2, <1>3, <1>4 DEF RangeIsOrdered

-----------------------------------------------------------------------------
(* The invariant and the properties.                                       *)

LEMMA FetchTypesStep ==
    ASSUME FetchInv, [FetchNext]_allVars, TypeOK'
    PROVE  FetchTypeOK'
  <1> DEFINE Slot == [fetch : FetchIds, state : {"copying", "full"}]
             Item == [fetch : 0 .. Fetches, read : {"whole", "torn", "blank"}]
  <1>1. /\ main \in {"start", "submit", "submitting", "waiting", "range", "ranging",
                     "rest", "stopping", "returned"}
        /\ next \in 1 .. Fetches + 1
        /\ ctxDone \in BOOLEAN
        /\ stage \in [WorkerIds -> {"fetch", "copy", "end"}]
        /\ slot \in Seq(Slot)
        /\ header \in 0 .. Fetches
        /\ seen \in Seq(Item)
    BY DEF FetchInv, FetchTypeOK
  <1>2. Fetches \in Nat
    BY FetchAssumption
  <1>3. /\ main' \in {"start", "submit", "submitting", "waiting", "range", "ranging",
                      "rest", "stopping", "returned"}
        /\ ctxDone' \in BOOLEAN
    <2>1. CASE Collect
      BY <1>1, <2>1 DEF Collect, StartPool, SubmitFetch, FetchSubmitted, GiveUp,
             CallPoolWait, SentinelSubmitted, PoolWaitReturns, RangeBegins, RangeItem,
             RangeEnds, RestOfCollect, CollectReturns, fetchVars
    <2>2. CASE CancelContext
      BY <1>1, <2>2 DEF CancelContext
    <2>3. ASSUME NEW w \in WorkerIds, Worker(w) PROVE UNCHANGED <<main, ctxDone>>
      BY <2>3 DEF Worker, WorkerSelects, AppendLength, AppendElement, JobReturns, fetchVars
    <2>4. CASE UNCHANGED allVars
      BY <1>1, <2>4 DEF allVars, fetchVars
    <2> QED
      BY <1>1, <2>1, <2>2, <2>3, <2>4 DEF FetchNext
  <1>4. next' \in 1 .. Fetches + 1
    <2>1. CASE FetchSubmitted
      <3>1. main = "submitting" /\ next' = next + 1
        BY <2>1 DEF FetchSubmitted
      <3>2. next <= Fetches
        BY <3>1 DEF FetchInv, CollectIsOrdered
      <3> QED
        BY <1>1, <1>2, <3>1, <3>2
    <2>2. CASE ~FetchSubmitted
      <3>1. next' = next
        BY <2>2 DEF FetchNext, Collect, StartPool, SubmitFetch, GiveUp,
               CallPoolWait, SentinelSubmitted, PoolWaitReturns, RangeBegins, RangeItem,
               RangeEnds, RestOfCollect, CollectReturns, CancelContext, Worker, WorkerSelects,
               AppendLength, AppendElement, JobReturns, fetchVars, allVars
      <3> QED
        BY <1>1, <3>1
    <2> QED
      BY <2>1, <2>2
  <1>5. stage' \in [WorkerIds -> {"fetch", "copy", "end"}] /\ slot' \in Seq(Slot)
    <2>1. ASSUME NEW w \in WorkerIds, WorkerSelects(w) \/ JobReturns(w)
          PROVE  stage' \in [WorkerIds -> {"fetch", "copy", "end"}] /\ slot' = slot
      BY <1>1, <2>1 DEF WorkerSelects, JobReturns, fetchVars
    <2>2. ASSUME NEW w \in WorkerIds, AppendLength(w)
          PROVE  stage' \in [WorkerIds -> {"fetch", "copy", "end"}] /\ slot' \in Seq(Slot)
      <3>1. stage' \in [WorkerIds -> {"fetch", "copy", "end"}]
        BY <1>1, <2>2 DEF AppendLength
      <3>2. [fetch |-> run[w], state |-> "copying"] \in Slot
        BY <2>2 DEF AppendLength, Fetching
      <3>3. slot' = Append(slot, [fetch |-> run[w], state |-> "copying"])
        BY <2>2 DEF AppendLength
      <3> HIDE DEF Slot
      <3> QED
        BY <1>1, <3>1, <3>2, <3>3
    <2>3. ASSUME NEW w \in WorkerIds, AppendElement(w)
          PROVE  stage' \in [WorkerIds -> {"fetch", "copy", "end"}] /\ slot' \in Seq(Slot)
      <3>1. stage' \in [WorkerIds -> {"fetch", "copy", "end"}]
        BY <1>1, <2>3 DEF AppendElement
      <3>2. Len(slot) > 0
        BY <2>3 DEF AppendElement, FetchInv, SlotsAreFilled
      <3>3. Len(slot) \in DOMAIN slot
        BY <3>2, SlotTypes
      <3>4. [slot[Len(slot)] EXCEPT !.state = "full"] \in Slot
        BY <3>3, SlotTypes
      <3>5. slot' = [slot EXCEPT ![Len(slot)] = [slot[Len(slot)] EXCEPT !.state = "full"]]
        BY <2>3 DEF AppendElement
      <3> HIDE DEF Slot
      <3>6. slot' \in Seq(Slot)
        BY <1>1, <3>3, <3>4, <3>5
      <3> QED
        BY <3>1, <3>6
    <2>4. ASSUME Collect \/ CancelContext \/ UNCHANGED allVars PROVE UNCHANGED <<stage, slot>>
      BY <2>4 DEF Collect, StartPool, SubmitFetch, FetchSubmitted, GiveUp,
             CallPoolWait, SentinelSubmitted, PoolWaitReturns, RangeBegins, RangeItem,
             RangeEnds, RestOfCollect, CollectReturns, CancelContext, fetchVars, allVars
    <2> HIDE DEF Slot
    <2> QED
      BY <1>1, <2>1, <2>2, <2>3, <2>4 DEF FetchNext, Worker
  <1>6. header' \in 0 .. Fetches
    <2>1. CASE RangeBegins
      BY <2>1, <1>2, SlotTypes, SlotsAreBounded DEF RangeBegins
    <2>2. CASE ~RangeBegins
      <3>1. header' = header
        BY <2>2 DEF FetchNext, Collect, StartPool, SubmitFetch, FetchSubmitted, GiveUp,
               CallPoolWait, SentinelSubmitted, PoolWaitReturns, RangeItem,
               RangeEnds, RestOfCollect, CollectReturns, CancelContext, Worker, WorkerSelects,
               AppendLength, AppendElement, JobReturns, fetchVars, allVars
      <3> QED
        BY <1>1, <3>1
    <2> QED
      BY <2>1, <2>2
  <1>7. seen' \in Seq(Item)
    <2>1. CASE RangeItem
      <3>1. PICK r \in Item : seen' = Append(seen, r)
        BY <2>1, ReadingTypes
      <3> HIDE DEF Item
      <3> QED
        BY <1>1, <3>1
    <2>2. CASE ~RangeItem
      <3>1. seen' = seen
        BY <2>2 DEF FetchNext, Collect, StartPool, SubmitFetch, FetchSubmitted, GiveUp,
               CallPoolWait, SentinelSubmitted, PoolWaitReturns, RangeBegins,
               RangeEnds, RestOfCollect, CollectReturns, CancelContext, Worker, WorkerSelects,
               AppendLength, AppendElement, JobReturns, fetchVars, allVars
      <3> QED
        BY <1>1, <3>1
    <2> QED
      BY <2>1, <2>2
  <1> QED
    BY <1>3, <1>4, <1>5, <1>6, <1>7 DEF FetchTypeOK

\* Every step keeps the invariant.
LEMMA FetchStepInv == FetchInv /\ [FetchNext]_allVars => FetchInv'
  <1> SUFFICES ASSUME FetchInv, [FetchNext]_allVars PROVE FetchInv'
    OBVIOUS
  <1>1. PoolInv'
    BY FetchIsPool, StepInv DEF FetchInv
  <1>2. FetchTypeOK'
    BY <1>1, FetchTypesStep DEF PoolInv
  <1>3. CollectIsOrdered' /\ SlotsAreFilled' /\ RangeIsOrdered'
    <2>1. ASSUME NEW w \in WorkerIds, Worker(w)
          PROVE  CollectIsOrdered' /\ SlotsAreFilled' /\ RangeIsOrdered'
      BY <2>1, WorkersKeepOrder, WorkersKeepRange, SelectsKeepsSlots, AppendLengthKeepsSlots,
         AppendElementKeepsSlots, ReturnKeepsSlots DEF Worker
    <2>2. CASE Collect
      BY <2>2, CollectKeepsOrder, CollectKeepsSlots, CollectKeepsRange,
         RangeBeginsWithFewUnread, RangeItemKeepsRange, RangeEndsKeepsRange
    <2>3. CASE CancelContext
      <3>1. CollectIsOrdered'
        BY <2>3 DEF CancelContext, vars, FetchInv, CollectIsOrdered
      <3>2. main' = main /\ header' = header /\ seen' = seen /\ slot' = slot /\ next' = next
        BY <2>3 DEF CancelContext
      <3>3. RangeIsOrdered'
        BY <2>3, <3>2, SlotTypes, RangeUnderWorkers
      <3> QED
        BY <2>3, <3>1, <3>3, CollectKeepsSlots
    <2>4. CASE UNCHANGED allVars
      <3>1. CollectIsOrdered'
        BY <2>4 DEF allVars, fetchVars, vars, FetchInv, CollectIsOrdered
      <3>2. UNCHANGED <<main, header, seen, slot, next, run, done, stage, worker>>
        BY <2>4 DEF allVars, fetchVars, vars
      <3>3. RangeIsOrdered'
        BY <3>2, SlotTypes, RangeUnderWorkers
      <3>4. Busy' = Busy
        BY <3>2 DEF Busy
      <3> QED
        BY <3>1, <3>2, <3>3, <3>4, SlotsUntouched
    <2> QED
      BY <2>1, <2>2, <2>3, <2>4 DEF FetchNext
  <1> QED
    BY <1>1, <1>2, <1>3 DEF FetchInv

\* The invariant holds of every behaviour of a fetch phase, for every number of
\* channels and of workers.
THEOREM FetchInvariant == FetchSpec => []FetchInv
  BY FetchInitInv, FetchStepInv, PTL DEF FetchSpec

\* A fetch phase drives the pool as the pool expects it: it is a behaviour of
\* WorkerPool, and so all that is proved of the pool holds in Collect.
THEOREM FetchRunsThePool == FetchSpec => Spec
  <1>1. FetchInit => Init
    BY DEF FetchInit
  <1> QED
    BY <1>1, FetchIsPool, FetchInvariant, PTL DEF FetchSpec, Spec

\* The ranges of the variables.
THEOREM FetchTypes == FetchSpec => []FetchTypeOK
  <1>1. FetchInv => FetchTypeOK
    BY DEF FetchInv
  <1> QED
    BY <1>1, FetchInvariant, PTL

\* The results that Collect misses or reads in part are fewer than the workers.
THEOREM FetchMissesFew == FetchSpec => []LateResultsAreFew
  <1>1. FetchInv => LateResultsAreFew
    <2> SUFFICES ASSUME FetchInv, main \in {"rest", "stopping", "returned"}, next > Fetches
                 PROVE  Cardinality(FetchIds \ Processed) < PoolSize
      BY DEF LateResultsAreFew
    <2>1. Len(seen) = header /\ Cardinality(Unread) < PoolSize
          /\ \A i \in DOMAIN seen :
                seen[i].fetch = IF seen[i].read = "blank" THEN 0 ELSE slot[i].fetch
      BY DEF FetchInv, RangeIsOrdered
    <2>2. FetchIds \ Processed \subseteq Unread
      <3> SUFFICES ASSUME NEW f \in FetchIds, f \notin Unread PROVE f \in Processed
        OBVIOUS
      <3>1. PICK i \in 1 .. header :
               /\ slot[i].fetch = f
               /\ IF i <= Len(seen) THEN seen[i].read = "whole" ELSE slot[i].state = "full"
        BY DEF Unread
      <3>2. i \in DOMAIN seen /\ i <= Len(seen)
        BY <2>1, SeenTypes
      <3>3. seen[i].read = "whole" /\ seen[i].fetch = f
        BY <2>1, <3>1, <3>2
      <3> QED
        BY <3>2, <3>3 DEF Processed
    <2>3. Unread \subseteq FetchIds
      BY DEF Unread
    <2> QED
      BY <2>1, <2>2, <2>3, FewStayUnread
  <1> QED
    BY <1>1, FetchInvariant, PTL

\* No result is processed twice, and only the last item may be read in part.
THEOREM FetchProcessesOnce == FetchSpec => []EachResultOnce
  <1>1. FetchInv => EachResultOnce
    <2> SUFFICES ASSUME FetchInv PROVE EachResultOnce
      OBVIOUS
    <2>1. /\ header <= Len(slot) /\ Len(seen) <= header
          /\ \A i \in DOMAIN seen :
                /\ seen[i].fetch = IF seen[i].read = "blank" THEN 0 ELSE slot[i].fetch
                /\ seen[i].read # "whole" => i = header
      BY DEF FetchInv, RangeIsOrdered
    <2>2. \A i \in DOMAIN seen : i \in DOMAIN slot
      BY <2>1, SeenTypes, SlotTypes
    <2>3. ASSUME NEW i \in DOMAIN seen, NEW j \in DOMAIN seen,
                 seen[i].fetch = seen[j].fetch, seen[i].read # "blank"
          PROVE  i = j
      <3>1. slot[i].fetch # 0 /\ seen[i].fetch = slot[i].fetch
        BY <2>1, <2>2, <2>3, SlotTypes DEF FetchIds
      <3>2. seen[j].read # "blank"
        BY <2>1, <2>3, <3>1
      <3>3. seen[j].fetch = slot[j].fetch
        BY <2>1, <3>2
      <3>4. \A a, b \in DOMAIN slot : slot[a].fetch = slot[b].fetch => a = b
        BY DEF FetchInv, SlotsAreFilled
      <3> QED
        BY <2>2, <2>3, <3>1, <3>4, <3>3
    <2> QED
      BY <2>1, <2>3 DEF EachResultOnce
  <1> QED
    BY <1>1, FetchInvariant, PTL

\* When Collect has returned no fetch is running, and every fetch of a phase that
\* was not cancelled has been made.
THEOREM FetchOutlivesNothing == FetchSpec => []NoFetchOutlivesCollect
  <1>1. FetchInv => NoFetchOutlivesCollect
    <2> SUFFICES ASSUME FetchInv, main = "returned"
                 PROVE  Busy = {} /\ (next > Fetches => Appended = FetchIds)
      BY DEF NoFetchOutlivesCollect
    <2>1. jobsClosed /\ (next > Fetches => sent = Fetches + 1 /\ sent \in done)
      BY DEF FetchInv, CollectIsOrdered
    <2>2. done = 1 .. recv /\ recv \in 0 .. sent /\ sent \in Nat
          /\ \A w \in WorkerIds : worker[w] \in {"unborn", "exited"}
      BY <2>1 DEF FetchInv, PoolInv, StopFinishesBegun, TypeOK
    <2>3. Busy = {}
      BY <2>2 DEF Busy
    <2>4. ASSUME next > Fetches PROVE Appended = FetchIds
      <3>1. Fetches + 1 \in 1 .. recv /\ Fetches \in Nat /\ recv \in Nat
        BY <2>1, <2>2, <2>4, SeenTypes
      <3>2. \A f \in FetchIds : f \in done
        BY <3>1, <2>2 DEF FetchIds
      <3>3. \A f \in FetchIds : \E i \in DOMAIN slot : slot[i].fetch = f
        BY <3>2 DEF FetchInv, SlotsAreFilled
      <3>4. \A i \in DOMAIN slot : slot[i].fetch \in FetchIds
        BY SlotTypes
      <3> QED
        BY <3>3, <3>4 DEF Appended
    <2> QED
      BY <2>3, <2>4
  <1> QED
    BY <1>1, FetchInvariant, PTL
=============================================================================
