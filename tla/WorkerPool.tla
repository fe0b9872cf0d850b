----------------------------- MODULE WorkerPool -----------------------------
(***************************************************************************)
(* internal/concurrency/worker_pool.go: a pool of goroutines fed through a *)
(* buffered channel, shared by any number of calling goroutines.           *)
(*                                                                         *)
(* The channel `jobs` is kept as two cursors: the n-th function sent is    *)
(* ticket n, the tickets recv+1..sent are in the buffer and a receive      *)
(* takes recv+1.  That is the channel's FIFO order with its history.       *)
(* p.stopped and the closing of p.stopChan change in one critical section  *)
(* of p.mu and nobody looks at one without the other, so `stopped` stands  *)
(* for both.  The critical sections of Start and of the first half of Stop *)
(* do not block and are single steps.                                      *)
(***************************************************************************)
EXTENDS Integers, FiniteSets

CONSTANTS Requested,   \* the argument of NewWorkerPool
          Clients,     \* goroutines that call the pool
          MaxCalls,    \* bound on calls of Submit, SubmitWithContext and Wait
          MaxStarts    \* bound on calls of Start

ASSUME RequestedAssumption == Requested \in Int
ASSUME BoundsAssumption == MaxCalls \in Nat /\ MaxStarts \in Nat

\* Mutant: NewWorkerPool takes its argument as it comes.
PoolSizeUnchecked == Requested

\* The number of workers of the pool.
PoolSize == IF Requested <= 0 THEN 1 ELSE Requested

\* The buffer of the jobs channel.
BufferSize == 2 * PoolSize

WorkerIds == 1 .. (PoolSize * MaxStarts)

VARIABLES sent,      \* functions sent on jobs so far
          recv,      \* functions received from jobs so far
          worker,    \* where each worker goroutine is
          run,       \* the ticket a busy worker runs
          done,      \* tickets whose function has returned
          starts,    \* calls of Start that spawned workers
          stopped,   \* p.stopped, and stopChan closed
          jobsClosed,\* the channel jobs is closed
          pc,        \* where each client is in its call
          ticket,    \* the ticket of the client's last send, 0 if refused
          result,    \* what the client's last call returned
          cancelled, \* clients whose context is done
          calls,     \* calls so far (bounded by MaxCalls)
          crashed    \* the process died of a panic

vars == <<sent, recv, worker, run, done, starts, stopped, jobsClosed, pc,
          ticket, result, cancelled, calls, crashed>>

queueVars  == <<sent, recv>>
workerVars == <<worker, run, done, starts>>
clientVars == <<pc, ticket, result, cancelled, calls>>

Spawned == starts * PoolSize

Init == /\ sent = 0
        /\ recv = 0
        /\ worker = [w \in WorkerIds |-> "unborn"]
        /\ run = [w \in WorkerIds |-> 0]
        /\ done = {}
        /\ starts = 0
        /\ stopped = FALSE
        /\ jobsClosed = FALSE
        /\ pc = [c \in Clients |-> "idle"]
        /\ ticket = [c \in Clients |-> 0]
        /\ result = [c \in Clients |-> "none"]
        /\ cancelled = {}
        /\ calls = 0
        /\ crashed = FALSE

-----------------------------------------------------------------------------
(* The callers.                                                            *)

\* Start: nothing once the pool is stopped; a second Start adds PoolSize more.
Start(c) ==
    /\ pc[c] = "idle"
    /\ ~stopped
    /\ starts < MaxStarts
    /\ starts' = starts + 1
    /\ worker' = [w \in WorkerIds |->
                     IF w \in (Spawned + 1) .. (Spawned + PoolSize)
                     THEN "select" ELSE worker[w]]
    /\ UNCHANGED <<queueVars, run, done, stopped, jobsClosed, clientVars, crashed>>

\* A call that ends in Submit: Submit itself, or the Submit of Wait's sentinel.
Call(c, at) ==
    /\ pc[c] = "idle"
    /\ calls < MaxCalls
    /\ calls' = calls + 1
    /\ pc' = [pc EXCEPT ![c] = at]
    /\ ticket' = [ticket EXCEPT ![c] = 0]
    /\ result' = [result EXCEPT ![c] = "none"]
    /\ UNCHANGED <<queueVars, workerVars, stopped, jobsClosed, cancelled, crashed>>

CallSubmit(c) == Call(c, "submit")
CallWait(c)   == Call(c, "waitSubmit")

\* SubmitWithContext looks at the context once before it submits.
CallSubmitWithContext(c) ==
    \/ /\ c \notin cancelled
       /\ Call(c, "ctxSubmit")
    \/ /\ c \in cancelled
       /\ pc[c] = "idle"
       /\ calls < MaxCalls
       /\ calls' = calls + 1
       /\ ticket' = [ticket EXCEPT ![c] = 0]
       /\ result' = [result EXCEPT ![c] = "err"]
       /\ UNCHANGED <<queueVars, workerVars, stopped, jobsClosed, pc, cancelled, crashed>>

Submitting(c) == pc[c] \in {"submit", "ctxSubmit", "waitSubmit"}

\* The first case of Submit's select: there is room in the buffer.  The select
\* takes this case whether or not stopChan is closed, when both are ready.
Enqueue(c) ==
    /\ Submitting(c)
    /\ ~jobsClosed
    /\ sent - recv < BufferSize
    /\ sent' = sent + 1
    /\ ticket' = [ticket EXCEPT ![c] = sent + 1]
    /\ pc' = [pc EXCEPT ![c] = CASE @ = "submit"     -> "idle"
                                 [] @ = "ctxSubmit"  -> "ctxWait"
                                 [] @ = "waitSubmit" -> "waiting"]
    /\ result' = [result EXCEPT ![c] = IF pc[c] = "submit" THEN "true" ELSE @]
    /\ UNCHANGED <<recv, workerVars, stopped, jobsClosed, cancelled, calls, crashed>>

\* The second case: the pool is stopped.  Wait ignores what Submit returned and
\* blocks on a channel nobody will close; SubmitWithContext returns ctx.Err(),
\* which is nil unless the context is done.
Refuse(c) ==
    /\ Submitting(c)
    /\ stopped
    /\ pc' = [pc EXCEPT ![c] = IF @ = "waitSubmit" THEN "waiting" ELSE "idle"]
    /\ result' = [result EXCEPT
                     ![c] = CASE pc[c] = "submit"     -> "false"
                              [] pc[c] = "ctxSubmit"  -> IF c \in cancelled THEN "err" ELSE "nil"
                              [] pc[c] = "waitSubmit" -> "none"]
    /\ UNCHANGED <<queueVars, workerVars, stopped, jobsClosed, ticket, cancelled, calls, crashed>>

\* The first case again once jobs is closed: the send panics and nothing
\* recovers it.
SendOnClosed(c) ==
    /\ Submitting(c)
    /\ jobsClosed
    /\ crashed' = TRUE
    /\ UNCHANGED <<queueVars, workerVars, stopped, jobsClosed, clientVars>>

\* Mutant: Wait returns as soon as its sentinel is queued.
WaitReturnEarly(c) ==
    /\ pc[c] = "waiting"
    /\ ticket[c] # 0
    /\ pc' = [pc EXCEPT ![c] = "idle"]
    /\ result' = [result EXCEPT ![c] = "waited"]
    /\ UNCHANGED <<queueVars, workerVars, stopped, jobsClosed, ticket, cancelled, calls, crashed>>

\* Wait returns when its sentinel, the function that closes the wait channel,
\* has run.
WaitReturn(c) ==
    /\ pc[c] = "waiting"
    /\ ticket[c] \in done
    /\ pc' = [pc EXCEPT ![c] = "idle"]
    /\ result' = [result EXCEPT ![c] = "waited"]
    /\ UNCHANGED <<queueVars, workerVars, stopped, jobsClosed, ticket, cancelled, calls, crashed>>

\* Mutant: SubmitWithContext gives up with no error when the context is done.
CtxReturnNil(c) ==
    /\ pc[c] = "ctxWait"
    /\ \/ ticket[c] \in done
       \/ c \in cancelled
    /\ result' = [result EXCEPT ![c] = "nil"]
    /\ pc' = [pc EXCEPT ![c] = "idle"]
    /\ UNCHANGED <<queueVars, workerVars, stopped, jobsClosed, ticket, cancelled, calls, crashed>>

\* SubmitWithContext returns the job's result, or the context's error.
CtxReturn(c) ==
    /\ pc[c] = "ctxWait"
    /\ \/ /\ ticket[c] \in done
          /\ result' = [result EXCEPT ![c] = "nil"]
       \/ /\ c \in cancelled
          /\ result' = [result EXCEPT ![c] = "err"]
    /\ pc' = [pc EXCEPT ![c] = "idle"]
    /\ UNCHANGED <<queueVars, workerVars, stopped, jobsClosed, ticket, cancelled, calls, crashed>>

\* The caller's context is cancelled by somebody else.
Cancel(c) ==
    /\ c \notin cancelled
    /\ cancelled' = cancelled \cup {c}
    /\ UNCHANGED <<queueVars, workerVars, stopped, jobsClosed, pc, ticket, result, calls, crashed>>

\* Stop: the first caller closes stopChan and goes on to wait; every later
\* caller returns at once.
CallStop(c) ==
    /\ pc[c] = "idle"
    /\ \/ /\ stopped
          /\ result' = [result EXCEPT ![c] = "stopped"]
          /\ UNCHANGED <<stopped, pc>>
       \/ /\ ~stopped
          /\ stopped' = TRUE
          /\ pc' = [pc EXCEPT ![c] = "stopping"]
          /\ result' = [result EXCEPT ![c] = "none"]
    /\ UNCHANGED <<queueVars, workerVars, jobsClosed, ticket, cancelled, calls, crashed>>

\* Mutant: Stop closes jobs and returns without wg.Wait.
StopReturnAtOnce(c) ==
    /\ pc[c] = "stopping"
    /\ jobsClosed' = TRUE
    /\ pc' = [pc EXCEPT ![c] = "idle"]
    /\ result' = [result EXCEPT ![c] = "stopped"]
    /\ UNCHANGED <<queueVars, workerVars, stopped, ticket, cancelled, calls, crashed>>

\* wg.Wait returns once every spawned worker has returned, and jobs is closed.
StopReturn(c) ==
    /\ pc[c] = "stopping"
    /\ \A w \in WorkerIds : worker[w] \in {"unborn", "exited"}
    /\ jobsClosed' = TRUE
    /\ pc' = [pc EXCEPT ![c] = "idle"]
    /\ result' = [result EXCEPT ![c] = "stopped"]
    /\ UNCHANGED <<queueVars, workerVars, stopped, ticket, cancelled, calls, crashed>>

-----------------------------------------------------------------------------
(* The workers.                                                            *)

\* The first case of the worker's select: a function is in the buffer.
Take(w) ==
    /\ worker[w] = "select"
    /\ recv < sent
    /\ recv' = recv + 1
    /\ worker' = [worker EXCEPT ![w] = "busy"]
    /\ run' = [run EXCEPT ![w] = recv + 1]
    /\ UNCHANGED <<sent, done, starts, stopped, jobsClosed, clientVars, crashed>>

\* The function returns.
Finish(w) ==
    /\ worker[w] = "busy"
    /\ worker' = [worker EXCEPT ![w] = "select"]
    /\ done' = done \cup {run[w]}
    /\ UNCHANGED <<queueVars, run, starts, stopped, jobsClosed, clientVars, crashed>>

\* Mutant: the workers leave only when jobs is closed.
QuitOnClosedJobs(w) ==
    /\ worker[w] = "select"
    /\ jobsClosed
    /\ worker' = [worker EXCEPT ![w] = "exited"]
    /\ UNCHANGED <<queueVars, run, done, starts, stopped, jobsClosed, clientVars, crashed>>

\* The second case: stopChan is closed.  Functions may still be in the buffer.
Quit(w) ==
    /\ worker[w] = "select"
    /\ stopped
    /\ worker' = [worker EXCEPT ![w] = "exited"]
    /\ UNCHANGED <<queueVars, run, done, starts, stopped, jobsClosed, clientVars, crashed>>

-----------------------------------------------------------------------------
WorkerStep(w) == Take(w) \/ Finish(w) \/ Quit(w)

\* The steps of a call that is under way.
ClientStep(c) == \/ Enqueue(c) \/ Refuse(c) \/ SendOnClosed(c)
                 \/ WaitReturn(c) \/ CtxReturn(c) \/ StopReturn(c)

ClientCall(c) == \/ Start(c) \/ CallSubmit(c) \/ CallSubmitWithContext(c)
                 \/ CallWait(c) \/ CallStop(c) \/ Cancel(c)

Next == /\ ~crashed
        /\ \/ \E w \in WorkerIds : WorkerStep(w)
           \/ \E c \in Clients : ClientStep(c) \/ ClientCall(c)

Spec == Init /\ [][Next]_vars

\* The Go scheduler runs every goroutine that can run, and the functions given
\* to the pool return: their network calls have timeouts.
Fairness == /\ \A w \in WorkerIds : WF_vars(~crashed /\ WorkerStep(w))
            /\ \A c \in Clients : WF_vars(~crashed /\ ClientStep(c))

FairSpec == Spec /\ Fairness

-----------------------------------------------------------------------------
(* Properties.                                                             *)

Busy == {w \in WorkerIds : worker[w] = "busy"}

\* The ranges of the variables.
TypeOK ==
    /\ sent \in Nat
    /\ recv \in 0 .. sent
    /\ worker \in [WorkerIds -> {"unborn", "select", "busy", "exited"}]
    /\ run \in [WorkerIds -> Nat]
    /\ done \subseteq 1 .. sent
    /\ starts \in 0 .. MaxStarts
    /\ stopped \in BOOLEAN
    /\ jobsClosed \in BOOLEAN
    /\ pc \in [Clients -> {"idle", "submit", "ctxSubmit", "ctxWait",
                           "waitSubmit", "waiting", "stopping"}]
    /\ ticket \in [Clients -> 0 .. sent]
    /\ result \in [Clients -> {"none", "true", "false", "nil", "err",
                               "waited", "stopped"}]
    /\ cancelled \subseteq Clients
    /\ calls \in 0 .. MaxCalls
    /\ crashed \in BOOLEAN

\* No function runs twice and none runs on two workers: what a busy worker runs
\* was received, has not returned, and nobody else runs it.
RunsOnce ==
    \A w \in Busy : /\ run[w] \in (1 .. recv) \ done
                    /\ \A v \in Busy \ {w} : run[v] # run[w]

\* A function that left the buffer has returned or is running: a worker that
\* leaves on stopChan does not take a function with it.
NoneLostOnTheWay ==
    \A t \in 1 .. recv : t \in done \/ \E w \in Busy : run[w] = t

\* What Wait does guarantee: every function accepted before its sentinel has
\* left the buffer, and those that have not returned are on other workers, so
\* there are fewer of them than workers.
WaitLeavesFewerThanWorkers ==
    \A c \in Clients : result[c] = "waited" =>
        /\ ticket[c] \in 1 .. recv
        /\ Cardinality((1 .. ticket[c]) \ done) < Spawned

\* What Stop does guarantee to its first caller: when it returns, every function
\* that was begun has returned, and every worker is gone.
StopFinishesBegun ==
    jobsClosed => /\ done = 1 .. recv
                  /\ \A w \in WorkerIds : worker[w] \in {"unborn", "exited"}

\* SubmitWithContext reports success for a job that did not run only when the
\* pool was stopped under it.
NilMeansRanOrStopped ==
    \A c \in Clients : result[c] = "nil" => ticket[c] \in done \/ stopped

\* The inductive invariant behind the properties above.  A function that has
\* returned was received; workers are spawned in blocks; stopping and closed
\* pools are stopped; a call under way has no result yet; and some spawned
\* worker is past every function that has returned, so it is not one of those
\* still running an earlier one.
PoolInv ==
    /\ TypeOK
    /\ RunsOnce
    /\ NoneLostOnTheWay
    /\ StopFinishesBegun
    /\ done \subseteq 1 .. recv
    /\ \A w \in WorkerIds : w > Spawned => worker[w] = "unborn"
    /\ jobsClosed => stopped
    /\ \A c \in Clients : pc[c] = "stopping" => stopped
    /\ \A c \in Clients : pc[c] # "idle" => result[c] = "none"
    /\ \A c \in Clients : result[c] = "waited" => ticket[c] \in done
    /\ \A t \in done : \E w \in WorkerIds :
          w <= Spawned /\ ~(w \in Busy /\ run[w] < t)

\* The first Stop returns: the workers leave although jobs is closed only
\* afterwards.
StopReturns ==
    \A c \in Clients : pc[c] = "stopping" ~> (pc[c] # "stopping" \/ crashed)

\* On a pool that was started and is not stopped, Wait returns.
WaitReturnsUnlessStopped ==
    \A c \in Clients :
        (pc[c] \in {"waitSubmit", "waiting"} /\ starts > 0)
            ~> (pc[c] = "idle" \/ stopped \/ crashed)

\* The pool is a JobService.
Service == INSTANCE JobService WITH
              accepted <- 1 .. sent,
              begun    <- 1 .. recv,
              finished <- done,
              phase    <- IF jobsClosed THEN "closed"
                          ELSE IF stopped THEN "closing" ELSE "open"

\* Every step of the pool is a step of the service or changes none of its state.
ImplementsJobService == Service!SSpec

-----------------------------------------------------------------------------
(* What a comment of worker_pool.go says and the code does not do.         *)

\* "Returns true if the job was submitted successfully, false if the pool is
\* stopped": a Submit returns, it does not bring the process down.
SubmitNeverPanics == ~crashed
=============================================================================
