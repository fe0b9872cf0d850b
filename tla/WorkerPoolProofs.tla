-------------------------- MODULE WorkerPoolProofs --------------------------
(***************************************************************************)
(* What holds of the worker pool for every number of workers, clients and  *)
(* calls.                                                                  *)
(***************************************************************************)
EXTENDS WorkerPool, FiniteSetTheorems, TLAPS

\* The size of a pool is a positive number whatever NewWorkerPool is given.
LEMMA PoolSizeType == PoolSize \in Nat /\ PoolSize > 0
  BY RequestedAssumption DEF PoolSize

\* Starting once more adds PoolSize to the spawned workers.
LEMMA SpawnedArithmetic ==
    ASSUME NEW n \in Nat
    PROVE  /\ n * PoolSize \in Nat
           /\ (n + 1) * PoolSize = n * PoolSize + PoolSize
  <1> DEFINE k == PoolSize
  <1>1. k \in Nat
    BY PoolSizeType
  <1> HIDE DEF k
  <1>2. n * k \in Nat /\ (n + 1) * k = n * k + k
    BY <1>1
  <1> QED
    BY <1>2 DEF k

\* Worker names are positive integers.
LEMMA WorkerIdsType == WorkerIds \subseteq Nat \ {0}
  <1>1. MaxStarts \in Nat
    BY BoundsAssumption
  <1>2. SUFFICES ASSUME NEW w \in WorkerIds PROVE w \in Nat \ {0}
    OBVIOUS
  <1>3. PoolSize * MaxStarts \in Nat
    BY <1>1, SpawnedArithmetic, PoolSizeType
  <1> QED
    BY <1>2, <1>3 DEF WorkerIds

\* The invariant holds initially.
LEMMA InitInv == Init => PoolInv
  <1> SUFFICES ASSUME Init PROVE PoolInv
    OBVIOUS
  <1>1. TypeOK
    <2>1. sent \in Nat /\ recv \in 0 .. sent /\ starts \in 0 .. MaxStarts /\ calls \in 0 .. MaxCalls
      BY BoundsAssumption DEF Init
    <2>2. /\ worker \in [WorkerIds -> {"unborn", "select", "busy", "exited"}]
          /\ run \in [WorkerIds -> Nat]
          /\ ticket \in [Clients -> 0 .. sent]
      BY <2>1 DEF Init
    <2>3. pc \in [Clients -> {"idle", "submit", "ctxSubmit", "ctxWait",
                              "waitSubmit", "waiting", "stopping"}]
      BY DEF Init
    <2>4. result \in [Clients -> {"none", "true", "false", "nil", "err",
                                  "waited", "stopped"}]
      BY DEF Init
    <2> QED
      BY <2>1, <2>2, <2>3, <2>4 DEF Init, TypeOK
  <1>2. Busy = {}
    BY DEF Init, Busy
  <1> QED
    BY <1>1, <1>2 DEF Init, PoolInv, RunsOnce, NoneLostOnTheWay, StopFinishesBegun

\* The invariant is kept when the workers, the queue and the pool do not change,
\* if the types are kept and a Wait that has returned has a finished ticket.
LEMMA ClientOnly ==
    ASSUME PoolInv, TypeOK',
           UNCHANGED <<recv, workerVars, stopped, jobsClosed>>,
           \A c \in Clients : pc'[c] = "stopping" => stopped,
           \A c \in Clients : pc'[c] # "idle" => result'[c] = "none",
           \A c \in Clients : result'[c] = "waited" => ticket'[c] \in done
    PROVE  PoolInv'
  <1>1. Busy' = Busy /\ Spawned' = Spawned
    BY DEF workerVars, Busy, Spawned
  <1> QED
    BY <1>1 DEF PoolInv, workerVars, RunsOnce, NoneLostOnTheWay, StopFinishesBegun

\* Spawning workers: the new ones were not born, so no function is lost.
LEMMA StartInv ==
    ASSUME PoolInv, NEW c \in Clients, Start(c)
    PROVE  PoolInv'
  <1> USE DEF PoolInv
  <1>1. starts \in Nat /\ starts' = starts + 1 /\ starts' \in 0 .. MaxStarts
    BY BoundsAssumption DEF Start, TypeOK
  <1>2. Spawned \in Nat /\ Spawned' = Spawned + PoolSize
    BY <1>1, SpawnedArithmetic DEF Spawned
  <1>3. \A w \in WorkerIds : w \in Nat
    BY WorkerIdsType
  <1>4. \A w \in WorkerIds : worker'[w] =
            IF w \in (Spawned + 1) .. (Spawned + PoolSize) THEN "select" ELSE worker[w]
    BY DEF Start
  <1>5. worker' \in [WorkerIds -> {"unborn", "select", "busy", "exited"}]
    BY DEF Start, TypeOK
  <1>6. TypeOK'
    BY <1>1, <1>5 DEF Start, TypeOK, queueVars, clientVars
  <1>7. Busy' = Busy
    <2>1. ASSUME NEW w \in WorkerIds, w \in (Spawned + 1) .. (Spawned + PoolSize)
          PROVE  worker[w] = "unborn"
      BY <2>1, <1>2, <1>3, PoolSizeType
    <2> QED
      BY <2>1, <1>4 DEF Busy
  <1>8. \A w \in WorkerIds : w > Spawned' => worker'[w] = "unborn"
    BY <1>2, <1>3, <1>4, PoolSizeType
  <1>9. \A t \in done : \E w \in WorkerIds : w <= Spawned' /\ ~(w \in Busy /\ run[w] < t)
    BY <1>2, <1>3, PoolSizeType
  <1>10. UNCHANGED <<sent, recv, run, done, stopped, jobsClosed, pc, ticket, result>>
    BY DEF Start, queueVars, clientVars
  <1>11. ~jobsClosed
    BY DEF Start
  <1> QED
    BY <1>6, <1>7, <1>8, <1>9, <1>10, <1>11 DEF RunsOnce, NoneLostOnTheWay, StopFinishesBegun

\* A worker receives the oldest function of the buffer.
LEMMA TakeInv ==
    ASSUME PoolInv, NEW w \in WorkerIds, Take(w)
    PROVE  PoolInv'
  <1> USE DEF PoolInv
  <1>1. recv \in Nat /\ sent \in Nat /\ recv' = recv + 1 /\ recv' \in 0 .. sent
    BY DEF Take, TypeOK
  <1>2. /\ worker' = [worker EXCEPT ![w] = "busy"]
        /\ run' = [run EXCEPT ![w] = recv + 1]
        /\ worker' \in [WorkerIds -> {"unborn", "select", "busy", "exited"}]
        /\ run' \in [WorkerIds -> Nat]
    BY <1>1 DEF Take, TypeOK
  <1>3. UNCHANGED <<sent, done, starts, stopped, jobsClosed, pc, ticket, result, cancelled, calls, crashed>>
    BY DEF Take, clientVars
  <1>4. TypeOK'
    BY <1>1, <1>2, <1>3 DEF TypeOK
  <1>5. Busy' = Busy \cup {w} /\ w \notin Busy
    BY <1>2 DEF Take, TypeOK, Busy
  <1>6. ~jobsClosed
    BY DEF Take, StopFinishesBegun
  <1>7. recv + 1 \notin done /\ \A v \in Busy : run[v] \in 1 .. recv /\ run[v] # recv + 1
    BY <1>1 DEF RunsOnce
  <1>8. RunsOnce'
    BY <1>1, <1>2, <1>3, <1>5, <1>7 DEF RunsOnce, TypeOK, Busy
  <1>9. NoneLostOnTheWay'
    <2> SUFFICES ASSUME NEW t \in 1 .. recv', t \notin done
                 PROVE  \E v \in Busy' : run'[v] = t
      BY <1>3 DEF NoneLostOnTheWay
    <2>1. CASE t = recv + 1
      BY <2>1, <1>2, <1>5 DEF TypeOK
    <2>2. CASE t \in 1 .. recv
      <3>1. PICK v \in Busy : run[v] = t
        BY <2>2 DEF NoneLostOnTheWay
      <3> QED
        BY <3>1, <1>2, <1>5 DEF TypeOK, Busy
    <2> QED
      BY <2>1, <2>2, <1>1
  <1>10. done \subseteq 1 .. recv'
    BY <1>1
  <1>11. \A t \in done' : \E v \in WorkerIds : v <= Spawned' /\ ~(v \in Busy' /\ run'[v] < t)
    <2> SUFFICES ASSUME NEW t \in done
                 PROVE  \E v \in WorkerIds : v <= Spawned /\ ~(v \in Busy' /\ run'[v] < t)
      BY <1>3 DEF Spawned
    <2>1. PICK v \in WorkerIds : v <= Spawned /\ ~(v \in Busy /\ run[v] < t)
      OBVIOUS
    <2>2. CASE v = w
      <3>1. run'[v] = recv + 1 /\ ~(recv + 1 < t)
        BY <2>2, <1>1, <1>2 DEF TypeOK
      <3> QED
        BY <2>1, <3>1
    <2>3. CASE v # w
      BY <2>1, <2>3, <1>2, <1>5 DEF TypeOK
    <2> QED
      BY <2>2, <2>3
  <1>12. \A v \in WorkerIds : v > Spawned' => worker'[v] = "unborn"
    BY <1>2, <1>3 DEF Take, TypeOK, Spawned
  <1> QED
    BY <1>3, <1>4, <1>6, <1>8, <1>9, <1>10, <1>11, <1>12 DEF StopFinishesBegun

\* A function returns.
LEMMA FinishInv ==
    ASSUME PoolInv, NEW w \in WorkerIds, Finish(w)
    PROVE  PoolInv'
  <1> USE DEF PoolInv
  <1>1. /\ worker' = [worker EXCEPT ![w] = "select"]
        /\ worker' \in [WorkerIds -> {"unborn", "select", "busy", "exited"}]
        /\ done' = done \cup {run[w]}
    BY DEF Finish, TypeOK
  <1>2. UNCHANGED <<sent, recv, run, starts, stopped, jobsClosed, pc, ticket, result, cancelled, calls, crashed>>
    BY DEF Finish, queueVars, clientVars
  <1>3. w \in Busy /\ Busy' = Busy \ {w}
    BY <1>1 DEF Finish, TypeOK, Busy
  <1>4. run[w] \in 1 .. recv /\ done' \subseteq 1 .. recv /\ recv \in Nat /\ sent \in Nat /\ recv <= sent
    <2>1. run[w] \in 1 .. recv
      BY <1>3 DEF RunsOnce
    <2>2. done' \subseteq 1 .. recv
      BY <2>1, <1>1
    <2> QED
      BY <2>1, <2>2 DEF TypeOK
  <1>5. done' \subseteq 1 .. sent
    BY <1>4
  <1>6. TypeOK'
    BY <1>1, <1>2, <1>5 DEF TypeOK
  <1>7. RunsOnce'
    BY <1>1, <1>2, <1>3 DEF RunsOnce
  <1>8. NoneLostOnTheWay'
    <2> SUFFICES ASSUME NEW t \in 1 .. recv, t \notin done'
                 PROVE  \E v \in Busy' : run[v] = t
      BY <1>2 DEF NoneLostOnTheWay
    <2>1. PICK v \in Busy : run[v] = t
      BY <1>1 DEF NoneLostOnTheWay
    <2> QED
      BY <2>1, <1>1, <1>3
  <1>9. ~jobsClosed
    BY DEF Finish, StopFinishesBegun
  <1>10. \A t \in done' : \E v \in WorkerIds : v <= Spawned' /\ ~(v \in Busy' /\ run'[v] < t)
    <2> SUFFICES ASSUME NEW t \in done'
                 PROVE  \E v \in WorkerIds : v <= Spawned /\ ~(v \in Busy' /\ run[v] < t)
      BY <1>2 DEF Spawned
    <2>1. CASE t \in done
      BY <2>1, <1>3
    <2>2. CASE t = run[w]
      <3>1. w \in Nat /\ Spawned \in Nat
        BY WorkerIdsType, SpawnedArithmetic DEF Spawned, TypeOK
      <3>2. w <= Spawned
        BY <3>1, <1>3 DEF Busy
      <3> QED
        BY <3>2, <1>3
    <2> QED
      BY <2>1, <2>2, <1>1
  <1>11. \A v \in WorkerIds : v > Spawned' => worker'[v] = "unborn"
    BY <1>1, <1>2 DEF Finish, TypeOK, Spawned
  <1>12. \A c \in Clients : result'[c] = "waited" => ticket'[c] \in done'
    BY <1>1, <1>2
  <1> QED
    BY <1>2, <1>4, <1>6, <1>7, <1>8, <1>9, <1>10, <1>11, <1>12 DEF StopFinishesBegun

\* A worker leaves between two functions.
LEMMA QuitInv ==
    ASSUME PoolInv, NEW w \in WorkerIds, Quit(w)
    PROVE  PoolInv'
  <1> USE DEF PoolInv
  <1>1. /\ worker' = [worker EXCEPT ![w] = "exited"]
        /\ worker' \in [WorkerIds -> {"unborn", "select", "busy", "exited"}]
    BY DEF Quit, TypeOK
  <1>2. UNCHANGED <<sent, recv, run, done, starts, stopped, jobsClosed, pc, ticket, result, cancelled, calls, crashed>>
    BY DEF Quit, queueVars, clientVars
  <1>3. Busy' = Busy /\ Spawned' = Spawned
    BY <1>1, <1>2 DEF Quit, TypeOK, Busy, Spawned
  <1>4. TypeOK'
    BY <1>1, <1>2 DEF TypeOK
  <1>5. \A v \in WorkerIds : v > Spawned' => worker'[v] = "unborn"
    BY <1>1, <1>3 DEF Quit, TypeOK
  <1>6. ~jobsClosed
    BY DEF Quit, StopFinishesBegun
  <1> QED
    BY <1>2, <1>3, <1>4, <1>5, <1>6 DEF RunsOnce, NoneLostOnTheWay, StopFinishesBegun

\* A call is made, a send succeeds, is refused or panics, a Wait or a
\* SubmitWithContext returns, a context is cancelled: none touches the workers.
LEMMA CallInv ==
    ASSUME PoolInv, NEW c \in Clients,
           CallSubmit(c) \/ CallSubmitWithContext(c) \/ CallWait(c)
    PROVE  PoolInv'
  <1> USE DEF PoolInv
  <1> DEFINE At == {"submit", "ctxSubmit", "waitSubmit"}
  <1>1. PICK at \in At : \/ Call(c, at)
                         \/ /\ calls < MaxCalls
                            /\ calls' = calls + 1
                            /\ pc[c] = "idle"
                            /\ ticket' = [ticket EXCEPT ![c] = 0]
                            /\ result' = [result EXCEPT ![c] = "err"]
                            /\ UNCHANGED <<queueVars, workerVars, stopped, jobsClosed, pc, cancelled, crashed>>
    BY DEF CallSubmit, CallSubmitWithContext, CallWait
  <1>2. calls' \in 0 .. MaxCalls
    BY <1>1, BoundsAssumption DEF Call, TypeOK
  <1>3. /\ ticket' = [ticket EXCEPT ![c] = 0]
        /\ ticket' \in [Clients -> 0 .. sent]
    BY <1>1 DEF Call, TypeOK
  <1>4. /\ \/ result' = [result EXCEPT ![c] = "none"]
           \/ result' = [result EXCEPT ![c] = "err"] /\ pc' = pc /\ pc[c] = "idle"
        /\ result' \in [Clients -> {"none", "true", "false", "nil", "err", "waited", "stopped"}]
    BY <1>1 DEF Call, TypeOK
  <1>5. /\ pc' = pc \/ pc' = [pc EXCEPT ![c] = at]
        /\ pc' \in [Clients -> {"idle", "submit", "ctxSubmit", "ctxWait",
                                "waitSubmit", "waiting", "stopping"}]
    BY <1>1 DEF Call, TypeOK
  <1>6. UNCHANGED <<sent, recv, worker, run, done, starts, stopped, jobsClosed, cancelled, crashed>>
    BY <1>1 DEF Call, queueVars, workerVars
  <1>7. TypeOK'
    BY <1>2, <1>3, <1>4, <1>5, <1>6 DEF TypeOK
  <1>8. \A d \in Clients : pc'[d] = "stopping" => stopped
    BY <1>5 DEF TypeOK
  <1>9. \A d \in Clients : result'[d] = "waited" => ticket'[d] \in done
    BY <1>3, <1>4 DEF TypeOK
  <1>10. \A d \in Clients : pc'[d] # "idle" => result'[d] = "none"
    BY <1>4, <1>5 DEF TypeOK
  <1> QED
    BY <1>6, <1>7, <1>8, <1>9, <1>10, ClientOnly DEF workerVars

LEMMA EnqueueInv ==
    ASSUME PoolInv, NEW c \in Clients, Enqueue(c)
    PROVE  PoolInv'
  <1> USE DEF PoolInv
  <1>1. sent \in Nat /\ recv \in 0 .. sent /\ sent' = sent + 1 /\ recv' = recv
    BY DEF Enqueue, TypeOK
  <1>2. /\ ticket' = [ticket EXCEPT ![c] = sent + 1]
        /\ ticket' \in [Clients -> 0 .. sent']
    BY <1>1 DEF Enqueue, TypeOK
  <1>3. PICK at \in {"idle", "ctxWait", "waiting"} : pc' = [pc EXCEPT ![c] = at]
    BY DEF Enqueue, Submitting
  <1>4. PICK r \in {"true", result[c]} : result' = [result EXCEPT ![c] = r]
    BY DEF Enqueue
  <1>5. pc' \in [Clients -> {"idle", "submit", "ctxSubmit", "ctxWait",
                             "waitSubmit", "waiting", "stopping"}]
    BY <1>3 DEF TypeOK
  <1>6. result' \in [Clients -> {"none", "true", "false", "nil", "err", "waited", "stopped"}]
    BY <1>4 DEF TypeOK
  <1>7. UNCHANGED <<worker, run, done, starts, stopped, jobsClosed, cancelled, calls, crashed>>
    BY DEF Enqueue, workerVars
  <1>8. TypeOK'
    <2>1. sent' \in Nat /\ recv' \in 0 .. sent' /\ done' \subseteq 1 .. sent'
      BY <1>1, <1>7 DEF TypeOK
    <2> QED
      BY <2>1, <1>2, <1>5, <1>6, <1>7 DEF TypeOK
  <1>9. \A d \in Clients : pc'[d] = "stopping" => stopped
    BY <1>3 DEF TypeOK
  <1>10. result[c] = "none" /\ pc[c] # "idle"
    BY DEF Enqueue, Submitting
  <1>11. \A d \in Clients : result'[d] = "waited" => ticket'[d] \in done
    BY <1>2, <1>4, <1>10 DEF TypeOK
  <1>12. \A d \in Clients : pc'[d] # "idle" => result'[d] = "none"
    <2>1. pc'[c] # "idle" => result'[c] = "none"
      BY <1>3, <1>10 DEF Enqueue, Submitting, TypeOK
    <2> QED
      BY <2>1, <1>3, <1>4 DEF TypeOK
  <1> QED
    BY <1>1, <1>7, <1>8, <1>9, <1>11, <1>12, ClientOnly DEF workerVars

LEMMA RefuseInv ==
    ASSUME PoolInv, NEW c \in Clients, Refuse(c)
    PROVE  PoolInv'
  <1> USE DEF PoolInv
  <1>1. result[c] = "none" /\ pc[c] \in {"submit", "ctxSubmit", "waitSubmit"}
    BY DEF Refuse, Submitting
  <1>2. PICK at \in {"waiting", "idle"} :
            pc' = [pc EXCEPT ![c] = at] /\ (at = "waiting" => pc[c] = "waitSubmit")
    BY DEF Refuse
  <1>3. PICK r \in {"false", "err", "nil", "none"} :
            result' = [result EXCEPT ![c] = r] /\ (pc[c] = "waitSubmit" => r = "none")
    <2>1. CASE pc[c] = "submit"
      BY <2>1 DEF Refuse
    <2>2. CASE pc[c] = "ctxSubmit"
      BY <2>2 DEF Refuse
    <2>3. CASE pc[c] = "waitSubmit"
      BY <2>3 DEF Refuse
    <2> QED
      BY <2>1, <2>2, <2>3, <1>1
  <1>4. UNCHANGED <<sent, recv, worker, run, done, starts, stopped, jobsClosed, ticket, cancelled, calls, crashed>>
    BY DEF Refuse, queueVars, workerVars
  <1>5. pc' \in [Clients -> {"idle", "submit", "ctxSubmit", "ctxWait",
                             "waitSubmit", "waiting", "stopping"}]
    BY <1>2 DEF TypeOK
  <1>6. result' \in [Clients -> {"none", "true", "false", "nil", "err", "waited", "stopped"}]
    BY <1>3 DEF TypeOK
  <1>7. TypeOK'
    BY <1>4, <1>5, <1>6 DEF TypeOK
  <1>8. \A d \in Clients : pc'[d] = "stopping" => stopped
    BY <1>2 DEF TypeOK
  <1>9. \A d \in Clients : pc'[d] # "idle" => result'[d] = "none"
    BY <1>2, <1>3 DEF TypeOK
  <1>10. \A d \in Clients : result'[d] = "waited" => ticket'[d] \in done
    BY <1>3, <1>4 DEF TypeOK
  <1> QED
    BY <1>4, <1>7, <1>8, <1>9, <1>10, ClientOnly DEF workerVars

\* A call returns to its client with the result r.
LEMMA ReturnInv ==
    ASSUME PoolInv, NEW c \in Clients, NEW r \in {"nil", "err", "waited"},
           r = "waited" => ticket[c] \in done,
           pc' = [pc EXCEPT ![c] = "idle"],
           result' = [result EXCEPT ![c] = r],
           UNCHANGED <<queueVars, workerVars, stopped, jobsClosed, ticket, cancelled, calls, crashed>>
    PROVE  PoolInv'
  <1> USE DEF PoolInv
  <1>1. pc' \in [Clients -> {"idle", "submit", "ctxSubmit", "ctxWait",
                             "waitSubmit", "waiting", "stopping"}]
    BY DEF TypeOK
  <1>2. result' \in [Clients -> {"none", "true", "false", "nil", "err", "waited", "stopped"}]
    BY DEF TypeOK
  <1>3. TypeOK'
    BY <1>1, <1>2 DEF TypeOK, queueVars, workerVars
  <1>4. \A d \in Clients : pc'[d] = "stopping" => stopped
    BY DEF TypeOK
  <1>5. \A d \in Clients : pc'[d] # "idle" => result'[d] = "none"
    BY DEF TypeOK
  <1>6. \A d \in Clients : result'[d] = "waited" => ticket'[d] \in done
    BY DEF TypeOK
  <1>7. recv' = recv
    BY DEF queueVars
  <1> QED
    BY <1>3, <1>4, <1>5, <1>6, <1>7, ClientOnly

\* Stop is called, by the first caller or a later one.
LEMMA CallStopInv ==
    ASSUME PoolInv, NEW c \in Clients, CallStop(c)
    PROVE  PoolInv'
  <1> USE DEF PoolInv
  <1>1. UNCHANGED <<sent, recv, worker, run, done, starts, jobsClosed, ticket, cancelled, calls, crashed>>
    BY DEF CallStop, queueVars, workerVars
  <1>2. stopped' \in BOOLEAN /\ (stopped => stopped')
    BY DEF CallStop, TypeOK
  <1>3. PICK at \in {"idle", "stopping"}, r \in {"stopped", "none"} :
            /\ pc' = [pc EXCEPT ![c] = at]
            /\ result' = [result EXCEPT ![c] = r]
            /\ at = "stopping" => r = "none" /\ stopped'
    <2>1. CASE stopped
      <3>1. pc' = [pc EXCEPT ![c] = "idle"]
        BY <2>1 DEF CallStop, TypeOK
      <3> QED
        BY <2>1, <3>1 DEF CallStop
    <2>2. CASE ~stopped
      BY <2>2 DEF CallStop
    <2> QED
      BY <2>1, <2>2
  <1>4. pc' \in [Clients -> {"idle", "submit", "ctxSubmit", "ctxWait",
                             "waitSubmit", "waiting", "stopping"}]
    BY <1>3 DEF TypeOK
  <1>5. result' \in [Clients -> {"none", "true", "false", "nil", "err", "waited", "stopped"}]
    BY <1>3 DEF TypeOK
  <1>6. TypeOK'
    BY <1>1, <1>2, <1>4, <1>5 DEF TypeOK
  <1>7. \A d \in Clients : pc'[d] = "stopping" => stopped'
    BY <1>2, <1>3 DEF TypeOK
  <1>8. \A d \in Clients : pc'[d] # "idle" => result'[d] = "none"
    BY <1>3 DEF TypeOK
  <1>9. \A d \in Clients : result'[d] = "waited" => ticket'[d] \in done
    BY <1>1, <1>3 DEF TypeOK
  <1>10. Busy' = Busy /\ Spawned' = Spawned
    BY <1>1 DEF Busy, Spawned
  <1> QED
    BY <1>1, <1>2, <1>6, <1>7, <1>8, <1>9, <1>10
       DEF RunsOnce, NoneLostOnTheWay, StopFinishesBegun

\* The first Stop returns: no worker is left, so every received function is done.
LEMMA StopReturnInv ==
    ASSUME PoolInv, NEW c \in Clients, StopReturn(c)
    PROVE  PoolInv' /\ done = 1 .. recv
  <1> USE DEF PoolInv
  <1>1. UNCHANGED <<sent, recv, worker, run, done, starts, stopped, ticket, cancelled, calls, crashed>>
    BY DEF StopReturn, queueVars, workerVars
  <1>2. pc' = [pc EXCEPT ![c] = "idle"] /\ result' = [result EXCEPT ![c] = "stopped"]
    BY DEF StopReturn
  <1>3. jobsClosed' = TRUE /\ stopped
    BY DEF StopReturn
  <1>4. Busy = {} /\ \A w \in WorkerIds : worker[w] \in {"unborn", "exited"}
    BY DEF StopReturn, Busy
  <1>5. done = 1 .. recv
    BY <1>4 DEF NoneLostOnTheWay
  <1>6. pc' \in [Clients -> {"idle", "submit", "ctxSubmit", "ctxWait",
                             "waitSubmit", "waiting", "stopping"}]
    BY <1>2 DEF TypeOK
  <1>7. result' \in [Clients -> {"none", "true", "false", "nil", "err", "waited", "stopped"}]
    BY <1>2 DEF TypeOK
  <1>8. TypeOK'
    BY <1>1, <1>3, <1>6, <1>7 DEF TypeOK
  <1>9. StopFinishesBegun'
    BY <1>1, <1>4, <1>5 DEF StopFinishesBegun
  <1>10. \A d \in Clients : pc'[d] # "idle" => result'[d] = "none"
    BY <1>2 DEF TypeOK
  <1>11. \A d \in Clients : result'[d] = "waited" => ticket'[d] \in done
    BY <1>1, <1>2 DEF TypeOK
  <1>12. Busy' = Busy /\ Spawned' = Spawned
    BY <1>1 DEF Busy, Spawned
  <1> QED
    BY <1>1, <1>3, <1>5, <1>8, <1>9, <1>10, <1>11, <1>12 DEF RunsOnce, NoneLostOnTheWay

\* Every step keeps the invariant.
LEMMA StepInv == PoolInv /\ [Next]_vars => PoolInv'
  <1> SUFFICES ASSUME PoolInv, [Next]_vars PROVE PoolInv'
    OBVIOUS
  <1>1. ASSUME NEW w \in WorkerIds, WorkerStep(w) PROVE PoolInv'
    BY <1>1, TakeInv, FinishInv, QuitInv DEF WorkerStep
  <1>2. ASSUME NEW c \in Clients, ClientStep(c) PROVE PoolInv'
    <2>1. CASE SendOnClosed(c)
      <3>1. TypeOK'
        BY <2>1 DEF SendOnClosed, PoolInv, TypeOK, queueVars, workerVars, clientVars
      <3>2. UNCHANGED <<recv, workerVars, stopped, jobsClosed, pc, ticket, result>>
        BY <2>1 DEF SendOnClosed, queueVars, clientVars
      <3>3. UNCHANGED <<recv, workerVars, stopped, jobsClosed>>
        BY <3>2
      <3>4. /\ \A d \in Clients : pc'[d] = "stopping" => stopped
            /\ \A d \in Clients : pc'[d] # "idle" => result'[d] = "none"
            /\ \A d \in Clients : result'[d] = "waited" => ticket'[d] \in done
        BY <3>2 DEF PoolInv
      <3> QED
        BY <3>1, <3>3, <3>4, ClientOnly
    <2>2. CASE WaitReturn(c)
      BY <2>2, ReturnInv DEF WaitReturn
    <2>3. CASE CtxReturn(c)
      <3>1. PICK r \in {"nil", "err"} : result' = [result EXCEPT ![c] = r]
        BY <2>3 DEF CtxReturn
      <3> QED
        BY <2>3, <3>1, ReturnInv DEF CtxReturn
    <2> QED
      BY <1>2, <2>1, <2>2, <2>3, EnqueueInv, RefuseInv, StopReturnInv DEF ClientStep
  <1>3. ASSUME NEW c \in Clients, ClientCall(c) PROVE PoolInv'
    <2>1. CASE Cancel(c)
      <3>1. UNCHANGED <<sent, recv, worker, run, done, starts, stopped, jobsClosed, pc, ticket, result, calls, crashed>>
        BY <2>1 DEF Cancel, queueVars, workerVars
      <3>2. TypeOK'
        BY <2>1, <3>1 DEF Cancel, PoolInv, TypeOK
      <3>3. UNCHANGED <<recv, workerVars, stopped, jobsClosed>>
        BY <3>1 DEF workerVars
      <3>4. /\ \A d \in Clients : pc'[d] = "stopping" => stopped
            /\ \A d \in Clients : pc'[d] # "idle" => result'[d] = "none"
            /\ \A d \in Clients : result'[d] = "waited" => ticket'[d] \in done
        BY <3>1 DEF PoolInv
      <3> QED
        BY <3>2, <3>3, <3>4, ClientOnly
    <2> QED
      BY <1>3, <2>1, StartInv, CallInv, CallStopInv DEF ClientCall
  <1>4. CASE UNCHANGED vars
    <2>1. Busy' = Busy /\ Spawned' = Spawned
      BY <1>4 DEF vars, Busy, Spawned
    <2>2. TypeOK'
      BY <1>4 DEF vars, PoolInv, TypeOK
    <2> QED
      BY <1>4, <2>1, <2>2 DEF vars, PoolInv, RunsOnce, NoneLostOnTheWay, StopFinishesBegun
  <1> QED
    BY <1>1, <1>2, <1>3, <1>4 DEF Next

\* The strengthened invariant holds of every behaviour of the pool.
THEOREM PoolInvariant == Spec => []PoolInv
  BY InitInv, StepInv, PTL DEF Spec

\* The ranges of the variables, for every size of the pool.
THEOREM PoolTypes == Spec => []TypeOK
  <1>1. PoolInv => TypeOK
    BY DEF PoolInv
  <1> QED
    BY <1>1, PoolInvariant, PTL

\* No function given to the pool runs twice or on two workers (worker,
\* Submit), whatever its callers do.
THEOREM PoolRunsOnce == Spec => []RunsOnce
  <1>1. PoolInv => RunsOnce
    BY DEF PoolInv
  <1> QED
    BY <1>1, PoolInvariant, PTL

\* No function is lost between the buffer and a worker.
THEOREM PoolLosesNone == Spec => []NoneLostOnTheWay
  <1>1. PoolInv => NoneLostOnTheWay
    BY DEF PoolInv
  <1> QED
    BY <1>1, PoolInvariant, PTL

\* When the first Stop has returned every begun function has returned.
THEOREM PoolStops == Spec => []StopFinishesBegun
  <1>1. PoolInv => StopFinishesBegun
    BY DEF PoolInv
  <1> QED
    BY <1>1, PoolInvariant, PTL

-----------------------------------------------------------------------------
(* What Wait guarantees.                                                   *)

\* Behind a finished function fewer earlier ones are unfinished than there are
\* workers: each of them occupies a worker of its own, and one worker is past
\* all of them.
LEMMA FewUnfinished ==
    ASSUME PoolInv, NEW t \in done
    PROVE  t \in 1 .. recv /\ Cardinality((1 .. t) \ done) < Spawned
  <1> USE DEF PoolInv
  <1> DEFINE U == (1 .. t) \ done
             Holder == [u \in U |-> CHOOSE w \in Busy : run[w] = u]
  <1>1. t \in 1 .. recv /\ recv \in Nat
    BY DEF TypeOK
  <1>2. PICK free \in WorkerIds : free <= Spawned /\ ~(free \in Busy /\ run[free] < t)
    OBVIOUS
  <1>3. Spawned \in Nat /\ \A w \in WorkerIds : w \in Nat \ {0}
    BY WorkerIdsType, SpawnedArithmetic DEF Spawned, TypeOK
  <1>4. ASSUME NEW u \in U
        PROVE  /\ Holder[u] \in Busy /\ run[Holder[u]] = u
               /\ Holder[u] \in (1 .. Spawned) \ {free}
    <2>1. u \in 1 .. recv /\ u # t /\ u < t
      BY <1>1
    <2>2. \E w \in Busy : run[w] = u
      BY <2>1, <1>4 DEF NoneLostOnTheWay
    <2>3. Holder[u] \in Busy /\ run[Holder[u]] = u
      BY <2>2
    <2>4. Holder[u] \in WorkerIds /\ worker[Holder[u]] = "busy"
      BY <2>3 DEF Busy
    <2>5. Holder[u] <= Spawned
      BY <2>4, <1>3
    <2>6. Holder[u] # free
      BY <2>1, <2>3, <1>2
    <2> QED
      BY <2>3, <2>4, <2>5, <2>6, <1>3
  <1>5. Holder \in Injection(U, (1 .. Spawned) \ {free})
    <2>1. Holder \in [U -> (1 .. Spawned) \ {free}]
      BY <1>4
    <2>2. \A a, b \in U : Holder[a] = Holder[b] => a = b
      BY <1>4
    <2> QED
      BY <2>1, <2>2 DEF Injection, IsInjective
  <1>6. /\ IsFiniteSet(1 .. Spawned)
        /\ Cardinality(1 .. Spawned) = Spawned
    <2>1. IsFiniteSet(1 .. Spawned) /\ Cardinality(1 .. Spawned) = IF 1 > Spawned THEN 0 ELSE Spawned - 1 + 1
      BY <1>3, FS_Interval
    <2> QED
      BY <2>1, <1>3
  <1>7. free \in 1 .. Spawned
    BY <1>2, <1>3
  <1>8. /\ IsFiniteSet((1 .. Spawned) \ {free})
        /\ Cardinality((1 .. Spawned) \ {free}) = Spawned - 1
    BY <1>6, <1>7, FS_RemoveElement
  <1> HIDE DEF Holder, U
  <1>9. IsFiniteSet(U) /\ Cardinality(U) <= Spawned - 1
    BY <1>5, <1>8, FS_Injection
  <1>10. Cardinality(U) \in Nat
    BY <1>9, FS_CardinalityType
  <1>11. Cardinality(U) < Spawned
    BY <1>3, <1>9, <1>10
  <1> QED
    BY <1>1, <1>11 DEF U

\* When Wait returns, fewer functions accepted before it are unfinished than
\* the pool has workers; with one worker, none is.
THEOREM PoolWait == Spec => []WaitLeavesFewerThanWorkers
  <1>1. PoolInv => WaitLeavesFewerThanWorkers
    <2> SUFFICES ASSUME PoolInv, NEW c \in Clients, result[c] = "waited"
                 PROVE  /\ ticket[c] \in 1 .. recv
                        /\ Cardinality((1 .. ticket[c]) \ done) < Spawned
      BY DEF WaitLeavesFewerThanWorkers
    <2>1. ticket[c] \in done
      BY DEF PoolInv
    <2> QED
      BY <2>1, FewUnfinished
  <1> QED
    BY <1>1, PoolInvariant, PTL

-----------------------------------------------------------------------------
(* What a nil of SubmitWithContext means.                                  *)

\* A step that only adds to done and to stopped, and leaves the ticket of
\* every client that has been told nil, keeps the property.
LEMMA NilKept ==
    ASSUME PoolInv, NilMeansRanOrStopped, done \subseteq done', stopped => stopped',
           \A c \in Clients : result'[c] = "nil" =>
              \/ result[c] = "nil" /\ ticket'[c] = ticket[c]
              \/ ticket'[c] \in done
              \/ stopped
    PROVE  NilMeansRanOrStopped'
  BY DEF NilMeansRanOrStopped

\* Only Refuse, which needs a stopped pool, and CtxReturn tell nil.
LEMMA NilStep == PoolInv /\ NilMeansRanOrStopped /\ [Next]_vars => NilMeansRanOrStopped'
  <1> SUFFICES ASSUME PoolInv, NilMeansRanOrStopped, [Next]_vars
               PROVE  NilMeansRanOrStopped'
    OBVIOUS
  <1> USE DEF queueVars, workerVars, clientVars
  <1>1. result \in [Clients -> {"none", "true", "false", "nil", "err", "waited", "stopped"}]
        /\ ticket \in [Clients -> 0 .. sent]
        /\ \A c \in Clients : pc[c] # "idle" => result[c] = "none"
    BY DEF PoolInv, TypeOK
  <1>2. ASSUME NEW w \in WorkerIds, WorkerStep(w) PROVE NilMeansRanOrStopped'
    BY <1>2, NilKept DEF WorkerStep, Take, Finish, Quit
  <1>3. ASSUME NEW c \in Clients, ClientStep(c) PROVE NilMeansRanOrStopped'
    <2>1. CASE Enqueue(c)
      BY <2>1, <1>1, NilKept DEF Enqueue, Submitting
    <2>2. CASE Refuse(c)
      BY <2>2, <1>1, NilKept DEF Refuse, Submitting
    <2>3. CASE SendOnClosed(c)
      BY <2>3, NilKept DEF SendOnClosed
    <2>4. CASE WaitReturn(c)
      BY <2>4, <1>1, NilKept DEF WaitReturn
    <2>5. CASE CtxReturn(c)
      BY <2>5, <1>1, NilKept DEF CtxReturn
    <2>6. CASE StopReturn(c)
      BY <2>6, <1>1, NilKept DEF StopReturn
    <2> QED
      BY <1>3, <2>1, <2>2, <2>3, <2>4, <2>5, <2>6 DEF ClientStep
  <1>4. ASSUME NEW c \in Clients, ClientCall(c) PROVE NilMeansRanOrStopped'
    <2>1. CASE Start(c)
      BY <2>1, NilKept DEF Start
    <2>2. ASSUME NEW to, Call(c, to) PROVE NilMeansRanOrStopped'
      BY <2>2, <1>1, NilKept DEF Call
    <2>3. CASE CallSubmitWithContext(c)
      <3>1. CASE c \notin cancelled
        BY <2>3, <3>1, <2>2 DEF CallSubmitWithContext
      <3>2. CASE c \in cancelled
        BY <2>3, <3>2, <1>1, NilKept DEF CallSubmitWithContext
      <3> QED
        BY <3>1, <3>2
    <2>4. CASE Cancel(c)
      BY <2>4, NilKept DEF Cancel
    <2>5. CASE CallStop(c)
      BY <2>5, <1>1, NilKept DEF CallStop
    <2> QED
      BY <1>4, <2>1, <2>2, <2>3, <2>4, <2>5 DEF ClientCall, CallSubmit, CallWait
  <1>5. CASE UNCHANGED vars
    BY <1>5, NilKept DEF vars
  <1> QED
    BY <1>2, <1>3, <1>4, <1>5 DEF Next

\* A nil from SubmitWithContext means that its function has returned, or that
\* the pool was stopped under it.
THEOREM PoolNil == Spec => []NilMeansRanOrStopped
  <1>1. Init => NilMeansRanOrStopped
    BY DEF Init, NilMeansRanOrStopped
  <1> QED
    BY <1>1, NilStep, PoolInvariant, PTL DEF Spec

-----------------------------------------------------------------------------
(* The pool implements the job service.                                    *)

\* A step of the pool is a step of the service or leaves it unchanged.
LEMMA StepRefines == PoolInv /\ [Next]_vars => [Service!SNext]_(Service!svars)
  <1> SUFFICES ASSUME PoolInv, [Next]_vars PROVE [Service!SNext]_(Service!svars)
    OBVIOUS
  <1> USE DEF PoolInv, TypeOK
  <1> DEFINE quiet == UNCHANGED <<sent, recv, done, stopped, jobsClosed>>
  <1>1. quiet => UNCHANGED Service!svars
    BY DEF Service!svars
  <1>2. ASSUME NEW c \in Clients, Enqueue(c) PROVE Service!Accept
    <2>1. sent' = sent + 1 /\ UNCHANGED <<recv, done, stopped, jobsClosed>> /\ ~jobsClosed
      BY <1>2 DEF Enqueue, workerVars
    <2>2. 1 .. sent' \subseteq Nat
      BY <2>1
    <2>3. sent + 1 \in (1 .. sent') \ (1 .. sent) /\ 1 .. sent' = (1 .. sent) \cup {sent + 1}
      BY <2>1
    <2> QED
      BY <2>1, <2>2, <2>3 DEF Service!Accept
  <1>3. ASSUME NEW w \in WorkerIds, Take(w) PROVE Service!Begin
    <2>1. recv' = recv + 1 /\ recv + 1 \in 1 .. sent /\ UNCHANGED <<sent, done, stopped, jobsClosed>>
      BY <1>3 DEF Take
    <2>2. ~jobsClosed
      BY <1>3 DEF Take, StopFinishesBegun
    <2>3. /\ recv + 1 \in (1 .. sent) \ (1 .. recv)
          /\ \A i \in (1 .. sent) \ (1 .. recv) : recv + 1 <= i
          /\ 1 .. recv' = (1 .. recv) \cup {recv + 1}
      BY <2>1
    <2> QED
      BY <2>1, <2>2, <2>3 DEF Service!Begin
  <1>4. ASSUME NEW w \in WorkerIds, Finish(w) PROVE Service!Finish
    <2>1. done' = done \cup {run[w]} /\ UNCHANGED <<sent, recv, stopped, jobsClosed>>
      BY <1>4 DEF Finish, queueVars
    <2>2. w \in Busy
      BY <1>4 DEF Finish, Busy
    <2>3. run[w] \in (1 .. recv) \ done
      BY <2>2 DEF RunsOnce
    <2> QED
      BY <2>1, <2>3 DEF Service!Finish
  <1>5. ASSUME NEW c \in Clients, CallStop(c) PROVE Service!BeginClosing \/ quiet
    <2>1. UNCHANGED <<sent, recv, done, jobsClosed>>
      BY <1>5 DEF CallStop, queueVars, workerVars
    <2>2. CASE stopped
      BY <1>5, <2>1, <2>2 DEF CallStop
    <2>3. CASE ~stopped
      BY <1>5, <2>1, <2>3 DEF CallStop, Service!BeginClosing
    <2> QED
      BY <2>2, <2>3
  <1>6. ASSUME NEW c \in Clients, StopReturn(c) PROVE Service!EndClosing \/ quiet
    <2>1. /\ UNCHANGED <<sent, recv, done, stopped>>
          /\ jobsClosed' = TRUE /\ stopped
      BY <1>6 DEF StopReturn, queueVars, workerVars
    <2>2. done = 1 .. recv
      BY <1>6, StopReturnInv
    <2>3. CASE jobsClosed
      BY <2>1, <2>3
    <2>4. CASE ~jobsClosed
      BY <2>1, <2>2, <2>4 DEF Service!EndClosing
    <2> QED
      BY <2>3, <2>4
  <1>7. ASSUME NEW c \in Clients,
               \/ Start(c) \/ CallSubmit(c) \/ CallSubmitWithContext(c) \/ CallWait(c)
               \/ Cancel(c) \/ Refuse(c) \/ SendOnClosed(c) \/ WaitReturn(c) \/ CtxReturn(c)
        PROVE  quiet
    BY <1>7 DEF Start, CallSubmit, CallSubmitWithContext, CallWait, Call, Cancel, Refuse,
                SendOnClosed, WaitReturn, CtxReturn, queueVars, workerVars
  <1>8. ASSUME NEW w \in WorkerIds, Quit(w) PROVE quiet
    BY <1>8 DEF Quit, queueVars
  <1>9. CASE UNCHANGED vars
    BY <1>1, <1>9 DEF vars
  <1> HIDE DEF quiet, PoolInv, TypeOK
  <1>10. ASSUME NEW w \in WorkerIds, WorkerStep(w) PROVE Service!SNext \/ quiet
    BY <1>10, <1>3, <1>4, <1>8 DEF WorkerStep, Service!SNext
  <1>11. ASSUME NEW c \in Clients, ClientStep(c) PROVE Service!SNext \/ quiet
    BY <1>11, <1>2, <1>6, <1>7 DEF ClientStep, Service!SNext
  <1>12. ASSUME NEW c \in Clients, ClientCall(c) PROVE Service!SNext \/ quiet
    BY <1>12, <1>5, <1>7 DEF ClientCall, Service!SNext
  <1>13. CASE Next
    BY <1>13, <1>1, <1>10, <1>11, <1>12 DEF Next
  <1> QED
    BY <1>1, <1>9, <1>13

\* The pool, whatever its callers do, behaves as a service that begins each
\* accepted job at most once, in order, and closes only when what it began has
\* finished.
THEOREM PoolImplementsService == Spec => ImplementsJobService
  <1>1. Init => Service!SInit
    BY DEF Init, Service!SInit
  <1> QED
    BY <1>1, StepRefines, PoolInvariant, PTL DEF Spec, ImplementsJobService, Service!SSpec
=============================================================================
