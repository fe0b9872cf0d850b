---------------------------- MODULE UpdaterProofs ----------------------------
(***************************************************************************)
(* Proofs about Updater, for all subscriptions, contents, hashes and       *)
(* numbers of retries, calls and restarts.                                 *)
(***************************************************************************)
EXTENDS Updater, TLAPS

Updaters == {"loop", "api"}
Updates  == [at : {"none", "fetch", "backoff", "content"}, url : Urls \cup {"none"},
             tries : 0 .. MaxRetries, got : Contents \cup {"none"}]
Savers   == [at : {"none", "opened", "written", "done", "failed"}, snap : States,
             fd : {"none", "tmp", "state", "gone"}]

-----------------------------------------------------------------------------
(* The inductive invariant.                                                *)

\* The lock is that of the one update that is under way, or of a call that saves.  What
\* an update has fetched and not yet written is the content of the hash in the states.
Locking ==
    /\ \A p \in Updaters :
          /\ upd[p].at # "none" => lock = p /\ upd[p].url \in Urls
          /\ upd[p].at = "backoff" => upd[p].tries < MaxRetries
          /\ upd[p].at = "content" =>
                upd[p].got \in Contents /\ states[upd[p].url].hash = HashOf[upd[p].got]
    /\ saver["api"].at # "none" => lock = "api" /\ upd["api"].at = "none"
    /\ main = "down" =>
          /\ loop = "off"
          /\ \A p \in Updaters : upd[p].at = "none"
          /\ \A p \in Threads : saver[p].at = "none"

\* As long as no two saves have been under way at once, only one is, its file is the
\* .tmp file until it renames it, and that holds all it has written.
OneSaver ==
    ~overlap =>
        /\ disk.is # "torn"
        /\ \A p, q \in Threads : Saving(p) /\ Saving(q) => p = q
        /\ \A p \in Threads :
              /\ saver[p].at = "opened"  => saver[p].fd = "tmp"
              /\ saver[p].at = "written" => tmp.is = "states"

\* The states that the next process will start with are good where the present ones are
\* lost with the process.
Holding(u)       == content[FileOf[u]]
Follows(u, hash) == hash \in Hashes => Holding(u) # "none" /\ HashOf[Holding(u)] = hash
Contented ==
    \A u \in Urls :
        u \notin lost => IF main = "down" THEN Follows(u, disk.states[u].hash)
                        ELSE Replacing(u) \/ Follows(u, states[u].hash)

\* Without calls of another goroutine the loop and Stop are never at it together.
Stopping ==
    bounds.calls = 0 =>
        /\ ~overlap
        /\ upd["api"].at = "none" /\ saver["api"].at = "none"
        /\ loop # "cycle" => upd["loop"].at = "none"
        /\ loop # "save"  => saver["loop"].at = "none"
        /\ main # "save"  => saver["main"].at = "none"
        /\ main = "save" =>
              /\ loop = "left"
              /\ saver["main"].at = "opened" => saver["main"].snap = states
              /\ saver["main"].at = "written" => tmp = Holds(states)
              /\ saver["main"].at = "done" => disk = Holds(states)

UpdaterInv == TypeOK /\ Locking /\ OneSaver /\ Contented /\ Stopping

-----------------------------------------------------------------------------
(* Types.                                                                  *)

\* The values that stand for nothing have the types of something.
LEMMA Nothing ==
    /\ NoStates \in States /\ NoUpdate \in Updates /\ NoSave \in Savers
    /\ Missing \in StateFiles /\ Torn \in StateFiles
    /\ NoState \in [hash : Hashes \cup {"none", "absent"}, updated : BOOLEAN]
    /\ NewState \in [hash : Hashes \cup {"none", "absent"}, updated : BOOLEAN]
<1>1. NoStates \in States BY DEF NoStates, NoState, States
<1>2. 0 \in 0 .. MaxRetries BY UpdaterAssumption
<1> QED BY <1>1, <1>2 DEF NoUpdate, Updates, NoSave, Savers, Missing, Torn, StateFiles, NoState, NewState

\* The file of a subscription is one of the files.
LEMMA FileOfUrls == \A u \in Urls : FileOf[u] \in Files
BY DEF Files

\* saveState begins with types as it should.
LEMMA BeginSaveTypes ==
    ASSUME TypeOK, NEW p \in Threads, NEW ss \in States, BeginSave(p, ss)
    PROVE  saver' \in [Threads -> Savers] /\ {disk', tmp'} \subseteq StateFiles /\ overlap' \in BOOLEAN
<1>0. saver \in [Threads -> Savers] /\ {disk, tmp} \subseteq StateFiles /\ overlap \in BOOLEAN
  BY DEF TypeOK, Savers
<1>1. [at |-> "opened", snap |-> ss, fd |-> "tmp"] \in Savers BY DEF Savers
<1>2. [NoSave EXCEPT !.at = "failed"] \in Savers BY Nothing DEF Savers, NoSave
<1>3. saver' \in [Threads -> Savers] BY <1>0, <1>1, <1>2 DEF BeginSave
<1>4. {disk', tmp'} \subseteq StateFiles BY <1>0, Nothing DEF BeginSave
<1>5. overlap' \in BOOLEAN BY <1>0 DEF BeginSave
<1> QED BY <1>3, <1>4, <1>5

\* saveState goes on with types as it should.
LEMMA SaveStateTypes ==
    ASSUME TypeOK, NEW p \in Threads, SaveState(p)
    PROVE  TypeOK'
<1>0. saver \in [Threads -> Savers] /\ {disk, tmp} \subseteq StateFiles
  BY DEF TypeOK, Savers
<1>1. ASSUME saver' \in [Threads -> Savers], {disk', tmp'} \subseteq StateFiles,
             UNCHANGED <<content, main, ctxDone, stopChan, loop, todo, lock, states, upd, bounds, history>>
      PROVE  TypeOK'
  BY <1>1 DEF TypeOK, Savers, history
<1>2. CASE WriteTmp(p)
  <2>1. saver' \in [Threads -> Savers] BY <1>0, <1>2, Nothing DEF WriteTmp, Savers, NoSave
  <2>2. saver[p].snap \in States BY <1>0 DEF Savers
  <2>3. Holds(saver[p].snap) \in StateFiles BY <2>2 DEF Holds, StateFiles
  <2>4. {disk', tmp'} \subseteq StateFiles BY <1>0, <1>2, <2>3, Nothing DEF WriteTmp
  <2> QED BY <1>1, <1>2, <2>1, <2>4 DEF WriteTmp
<1>3. CASE RenameTmp(p)
  <2>1. \A q \in Threads : [saver[q] EXCEPT !.fd = Moved(@)] \in Savers
    BY <1>0 DEF Savers, Moved
  <2>2. [saver[p] EXCEPT !.at = "done"] \in Savers /\ [saver[p] EXCEPT !.at = "failed"] \in Savers
    BY <1>0 DEF Savers
  <2>3. saver' \in [Threads -> Savers] BY <1>0, <1>3, <2>1, <2>2 DEF RenameTmp
  <2>4. {disk', tmp'} \subseteq StateFiles BY <1>0, <1>3, Nothing DEF RenameTmp
  <2> QED BY <1>1, <1>3, <2>3, <2>4 DEF RenameTmp
<1> QED BY <1>2, <1>3 DEF SaveState

\* An update of a thread has types as it should.
LEMMA UpdateStepTypes ==
    ASSUME TypeOK, Locking, NEW p \in Updaters, UpdateStep(p)
    PROVE  TypeOK'
<1>0. upd \in [Updaters -> Updates] /\ states \in States BY DEF TypeOK, Updates, Updaters
<1> DEFINE u == upd[p].url
           Entry == [hash : Hashes \cup {"none", "absent"}, updated : BOOLEAN]
<1>1. upd[p] \in Updates BY <1>0
<1>2. ASSUME u \in Urls PROVE Previous(u) \in Entry
  BY <1>0, <1>2, Nothing DEF Previous, States
<1>3. ASSUME NEW x \in Entry PROVE [states EXCEPT ![u] = x] \in States
  BY <1>0, <1>3 DEF States
<1>4. ASSUME NEW x \in Updates PROVE [upd EXCEPT ![p] = x] \in [Updaters -> Updates]
  BY <1>0, <1>4
<1>5. ASSUME upd' \in [Updaters -> Updates], states' \in States, lock' \in {lock, "free"},
             content' \in [Files -> Contents \cup {"none"}], lost' \in SUBSET Urls,
             UNCHANGED <<disk, tmp, main, ctxDone, stopChan, loop, todo, saver, bounds, overlap>>
      PROVE  TypeOK'
  BY <1>5 DEF TypeOK, Updates, Updaters
<1>6. content \in [Files -> Contents \cup {"none"}] /\ lost \in SUBSET Urls BY DEF TypeOK
<1>7. ASSUME Fail(p) PROVE TypeOK'
  <2>1. [states EXCEPT ![u] = Previous(u)] \in States
    <3>1. CASE u \in Urls BY <1>2, <1>3, <3>1
    <3>2. CASE u \notin Urls
      <4>1. [states EXCEPT ![u] = Previous(u)] = states BY <1>0, <3>2 DEF States
      <4> QED BY <1>0, <4>1
    <3> QED BY <3>1, <3>2
  <2>2. [upd EXCEPT ![p] = NoUpdate] \in [Updaters -> Updates] BY <1>4, Nothing
  <2> QED BY <1>5, <1>6, <1>7, <2>1, <2>2 DEF Fail, Returns, files, history
<1>8. CASE FetchFails(p)
  <2>1. CASE upd[p].tries = MaxRetries BY <1>7, <1>8, <2>1 DEF FetchFails
  <2>2. CASE upd[p].tries # MaxRetries
    <3>1. [upd[p] EXCEPT !.at = "backoff"] \in Updates BY <1>1 DEF Updates
    <3>2. upd' \in [Updaters -> Updates] BY <1>4, <1>8, <2>2, <3>1 DEF FetchFails
    <3> QED BY <1>0, <1>5, <1>6, <1>8, <2>2, <3>2 DEF FetchFails, files, history
  <2> QED BY <2>1, <2>2
<1>9. CASE BackoffOver(p)
  <2>1. upd[p].tries + 1 \in 0 .. MaxRetries BY <1>1, <1>9, UpdaterAssumption DEF Updates, BackoffOver, Locking
  <2>2. [upd[p] EXCEPT !.at = "fetch", !.tries = @ + 1] \in Updates BY <1>1, <2>1 DEF Updates
  <2>3. upd' = [upd EXCEPT ![p] = [upd[p] EXCEPT !.at = "fetch", !.tries = @ + 1]]
    BY <1>0, <1>9 DEF BackoffOver
  <2>4. upd' \in [Updaters -> Updates] BY <1>4, <2>2, <2>3
  <2> QED BY <1>0, <1>5, <1>6, <1>9, <2>4 DEF BackoffOver, files, history
<1>10. CASE BackoffCancelled(p) BY <1>7, <1>10 DEF BackoffCancelled
<1>11. ASSUME upd[p].at # "none" PROVE u \in Urls BY <1>11 DEF Locking
<1>12. CASE Unchanged(p)
  <2>1. u \in Urls BY <1>11, <1>12 DEF Unchanged
  <2>2. states[u] \in Entry BY <1>0, <2>1 DEF States
  <2>3. [states[u] EXCEPT !.updated = FALSE] \in Entry BY <2>2
  <2>4. states' = [states EXCEPT ![u] = [states[u] EXCEPT !.updated = FALSE]]
    BY <1>0, <1>12, <2>1 DEF Unchanged, States
  <2>5. states' \in States BY <1>3, <2>3, <2>4
  <2>6. upd' \in [Updaters -> Updates] BY <1>4, <1>12, Nothing DEF Unchanged, Returns
  <2> QED BY <1>5, <1>6, <1>12, <2>5, <2>6 DEF Unchanged, Returns, files, history
<1>13. CASE Changed(p)
  <2>1. PICK c \in Contents :
           /\ states' = [states EXCEPT ![u] = [hash |-> HashOf[c], updated |-> TRUE]]
           /\ upd' = [upd EXCEPT ![p].at = "content", ![p].got = c]
    BY <1>13 DEF Changed, Renew
  <2>2. [hash |-> HashOf[c], updated |-> TRUE] \in Entry BY DEF Hashes
  <2>3. states' \in States BY <1>3, <2>1, <2>2
  <2>4. [upd[p] EXCEPT !.at = "content", !.got = c] \in Updates BY <1>1 DEF Updates
  <2>5. upd' = [upd EXCEPT ![p] = [upd[p] EXCEPT !.at = "content", !.got = c]] BY <1>0, <2>1
  <2>6. upd' \in [Updaters -> Updates] BY <1>4, <2>4, <2>5
  <2> QED BY <1>5, <1>6, <1>13, <2>3, <2>6 DEF Changed, Renew, files
<1>14. CASE SaveContent(p)
  <2>1. u \in Urls BY <1>11, <1>14 DEF SaveContent
  <2>2. upd' \in [Updaters -> Updates] BY <1>4, <1>14, Nothing DEF SaveContent, Returns
  <2>3. content' \in [Files -> Contents \cup {"none"}] /\ lost' \in SUBSET Urls
    BY <1>1, <1>6, <1>14, <2>1, FileOfUrls DEF SaveContent, Updates, Sharing
  <2> QED BY <1>0, <1>5, <1>14, <2>2, <2>3 DEF SaveContent, Returns
<1> QED BY <1>8, <1>9, <1>10, <1>12, <1>13, <1>14 DEF UpdateStep

\* An event stays within its bounds.
LEMMA EventTypes ==
    ASSUME TypeOK, NEW b \in {"ticks", "calls"}, Event(b)
    PROVE  /\ bounds' \in [ticks : 0 .. MaxEvents, calls : 0 .. MaxEvents, starts : 0 .. MaxStarts]
           /\ b = "calls" => bounds'.calls # 0
           /\ b = "ticks" => bounds'.calls = bounds.calls
<1>1. MaxEvents \in Nat /\ MaxStarts \in Nat BY UpdaterAssumption
<1>2. bounds \in [ticks : 0 .. MaxEvents, calls : 0 .. MaxEvents, starts : 0 .. MaxStarts]
  BY DEF TypeOK
<1>3. bounds.ticks + 1 \in 0 .. MaxEvents /\ bounds.calls + 1 \in 0 .. MaxEvents /\ bounds.calls + 1 # 0
  BY <1>1, <1>2 DEF Event
<1> QED BY <1>1, <1>2, <1>3 DEF Event

\* A thread that locks u.mu for an update.
LEMMA LockUpdateTypes ==
    ASSUME TypeOK, NEW p \in Updaters, NEW u \in Urls, LockUpdate(p, u)
    PROVE  upd' \in [Updaters -> Updates] /\ lock' \in {"free", "loop", "api"}
<1>1. [NoUpdate EXCEPT !.at = "fetch", !.url = u] \in Updates BY Nothing DEF NoUpdate, Updates
<1>2. upd \in [Updaters -> Updates] BY DEF TypeOK, Updates, Updaters
<1> QED BY <1>1, <1>2 DEF LockUpdate, Updaters

\* The end of a process.
LEMMA GoneTypes == TypeOK /\ Locking /\ Gone => TypeOK'
<1> SUFFICES ASSUME TypeOK, Locking, Gone PROVE TypeOK' OBVIOUS
<1>1. states' \in States /\ tmp' \in StateFiles BY Nothing DEF Gone, TypeOK
<1>2. upd' \in [Updaters -> Updates] /\ saver' \in [Threads -> Savers] BY Nothing DEF Gone, Updaters
<1>3. lost' \in SUBSET Urls
  <2>1. \A p \in Updaters : upd[p].at = "content" => upd[p].url \in Urls BY DEF Locking
  <2> QED BY <2>1 DEF Gone, TypeOK, Updaters
<1> QED BY <1>1, <1>2, <1>3 DEF Gone, TypeOK, Updates, Savers, Updaters

\* Every step keeps the types.
LEMMA TypeStep == TypeOK /\ Locking /\ [Next]_vars => TypeOK'
<1> SUFFICES ASSUME TypeOK, Locking, [Next]_vars PROVE TypeOK' OBVIOUS
<1>0. /\ saver \in [Threads -> Savers] /\ NoSave \in Savers /\ upd \in [Updaters -> Updates]
      /\ states \in States
  BY Nothing DEF TypeOK, Savers, Updates, Updaters
<1> USE DEF files, history
<1>1. CASE Launch
  <2>1. disk.states \in States BY DEF TypeOK, StateFiles
  <2>2. bounds' \in [ticks : 0 .. MaxEvents, calls : 0 .. MaxEvents, starts : 0 .. MaxStarts]
    BY <1>1, UpdaterAssumption DEF Launch, TypeOK
  <2> QED BY <1>1, <2>1, <2>2 DEF Launch, BeginCycle, TypeOK
<1>2. CASE TickCycle
  <2>1. bounds' \in [ticks : 0 .. MaxEvents, calls : 0 .. MaxEvents, starts : 0 .. MaxStarts]
    BY <1>2, EventTypes DEF TickCycle
  <2> QED BY <1>2, <2>1 DEF TickCycle, BeginCycle, TypeOK
<1>3. CASE QuitLoop \/ StartReturns \/ CallStop \/ EndContext
  BY <1>3 DEF QuitLoop, StartReturns, CallStop, EndContext, TypeOK
<1>4. ASSUME NEW u \in Urls, CycleNext(u) PROVE TypeOK'
  <2>1. upd' \in [Updaters -> Updates] /\ lock' \in {"free", "loop", "api"}
    BY <1>4, LockUpdateTypes DEF CycleNext, Updaters
  <2> QED BY <1>4, <2>1 DEF CycleNext, TypeOK, Updates, Updaters
<1>5. CASE CycleCancelled BY <1>5 DEF CycleCancelled, TypeOK
<1>6. ASSUME NEW p \in Threads, BeginSave(p, states),
             UNCHANGED <<content, ctxDone, stopChan, todo, lock, states, upd, bounds, lost>>,
             main' \in {main, "save"}, loop' \in {loop, "save"}
      PROVE  TypeOK'
  <2>1. saver' \in [Threads -> Savers] /\ {disk', tmp'} \subseteq StateFiles /\ overlap' \in BOOLEAN
    BY <1>0, <1>6, BeginSaveTypes
  <2> QED BY <1>6, <2>1 DEF TypeOK, Savers
<1>7. CASE CycleSaves BY <1>6, <1>7 DEF CycleSaves, Threads
<1>8. CASE StopSaves BY <1>6, <1>8 DEF StopSaves, Threads
<1>9. ASSUME NEW p \in Threads, saver' = [saver EXCEPT ![p] = NoSave]
      PROVE  saver' \in [Threads -> Savers]
  BY <1>0, <1>9
<1>10. CASE CycleEnds
  <2>1. saver' \in [Threads -> Savers] BY <1>9, <1>10 DEF CycleEnds, Threads
  <2> QED BY <1>10, <2>1 DEF CycleEnds, TypeOK, Savers
<1>11. CASE AddOrRemoveReturns
  <2>1. saver' \in [Threads -> Savers] BY <1>9, <1>11 DEF AddOrRemoveReturns, Threads
  <2> QED BY <1>11, <2>1 DEF AddOrRemoveReturns, TypeOK, Savers
<1>12. ASSUME NEW p \in Updaters, UpdateStep(p) PROVE TypeOK' BY <1>12, UpdateStepTypes
<1>13. ASSUME NEW p \in Threads, SaveState(p) PROVE TypeOK' BY <1>13, SaveStateTypes
<1>14. CASE StopReturn \/ StopAgain \/ Crash BY <1>14, GoneTypes DEF StopReturn, StopAgain, Crash
<1>15. ASSUME NEW u \in Urls, UpdateSubscriptionNow(u) PROVE TypeOK'
  <2>1. upd' \in [Updaters -> Updates] /\ lock' \in {"free", "loop", "api"}
    BY <1>15, LockUpdateTypes DEF UpdateSubscriptionNow, Updaters
  <2>2. bounds' \in [ticks : 0 .. MaxEvents, calls : 0 .. MaxEvents, starts : 0 .. MaxStarts]
    BY <1>15, EventTypes DEF UpdateSubscriptionNow, CallApi
  <2> QED BY <1>15, <2>1, <2>2 DEF UpdateSubscriptionNow, TypeOK, Updates, Updaters
<1>16. ASSUME NEW u \in Urls, AddOrRemove(u) PROVE TypeOK'
  <2>1. states' \in States
    <3>1. states' = [states EXCEPT ![u] = NewState] \/ states' = [states EXCEPT ![u] = NoState]
      BY <1>16 DEF AddOrRemove
    <3> QED BY <1>0, <3>1, Nothing DEF States
  <2>2. BeginSave("api", states') BY <1>16 DEF AddOrRemove
  <2>3. saver' \in [Threads -> Savers] /\ {disk', tmp'} \subseteq StateFiles /\ overlap' \in BOOLEAN
    BY <2>1, <2>2, BeginSaveTypes DEF Threads
  <2>4. bounds' \in [ticks : 0 .. MaxEvents, calls : 0 .. MaxEvents, starts : 0 .. MaxStarts]
    BY <1>16, EventTypes DEF AddOrRemove, CallApi
  <2> QED BY <1>16, <2>1, <2>3, <2>4 DEF AddOrRemove, TypeOK, Savers
<1>17. CASE ResetUpdatedFlags
  <2>1. \A u \in Urls : [states[u] EXCEPT !.updated = FALSE]
                           \in [hash : Hashes \cup {"none", "absent"}, updated : BOOLEAN]
    BY <1>0 DEF States
  <2>2. states' \in States BY <1>17, <2>1 DEF ResetUpdatedFlags, States
  <2>3. bounds' \in [ticks : 0 .. MaxEvents, calls : 0 .. MaxEvents, starts : 0 .. MaxStarts]
    BY <1>17, EventTypes DEF ResetUpdatedFlags, CallApi
  <2> QED BY <1>17, <2>2, <2>3 DEF ResetUpdatedFlags, TypeOK
<1>18. CASE UNCHANGED vars BY <1>18 DEF vars, process, TypeOK
<1> QED BY <1>1, <1>2, <1>3, <1>4, <1>5, <1>7, <1>8, <1>10, <1>11, <1>12, <1>13, <1>14, <1>15,
           <1>16, <1>17, <1>18
        DEF Next, LoopStep, MainStep, ApiStep, Updaters, Threads

-----------------------------------------------------------------------------
(* What the steps of an update and of a save do.                           *)

\* The ways an update goes on: it tries again, has a content with another hash, ends
\* with the hash that it found, or ends with the content in its file or lost.
LEMMA UpdateEffects ==
    ASSUME TypeOK, Locking, NEW p \in Updaters, UpdateStep(p), NEW u, u = upd[p].url
    PROVE  /\ u \in Urls /\ lock = p /\ upd[p].at # "none"
           /\ UNCHANGED <<disk, tmp, main, ctxDone, stopChan, loop, todo, saver, bounds, overlap>>
           /\ \A q \in Updaters \ {p} : upd'[q] = upd[q]
           /\ \A v \in Urls \ {u} : /\ states'[v] = states[v]
                                    /\ v \notin lost' => v \notin lost /\ Holding(v)' = Holding(v)
           /\ \/ /\ upd[p].at # "content" /\ lock' = lock /\ UNCHANGED <<states, content, lost>>
                 /\ upd'[p].url = u /\ upd'[p].at \in {"fetch", "backoff"}
                 /\ upd'[p].at = "backoff" => upd'[p].tries < MaxRetries
              \/ /\ upd[p].at # "content" /\ lock' = lock /\ UNCHANGED <<content, lost>>
                 /\ upd'[p].url = u /\ upd'[p].at = "content" /\ upd'[p].got \in Contents
                 /\ states'[u].hash = HashOf[upd'[p].got]
              \/ /\ upd[p].at # "content" /\ lock' = "free" /\ UNCHANGED <<content, lost>>
                 /\ upd'[p].at = "none"
                 /\ states'[u].hash \in {states[u].hash, "none"}
              \/ /\ upd[p].at = "content" /\ lock' = "free" /\ UNCHANGED states
                 /\ upd'[p].at = "none"
                 /\ Holding(u)' = upd[p].got \/ u \in lost'
<1>0. /\ upd \in [Updaters -> Updates] /\ states \in States
      /\ content \in [Files -> Contents \cup {"none"}]
  BY DEF TypeOK, Updates, Updaters
<1>1. upd[p].at # "none"
  BY DEF UpdateStep, FetchFails, BackoffOver, BackoffCancelled, Unchanged, Changed, Renew, SaveContent
<1>2. u \in Urls /\ lock = p BY <1>1 DEF Locking
<1>3. upd[p] \in Updates BY <1>0
<1>4. states[u] \in [hash : Hashes \cup {"none", "absent"}, updated : BOOLEAN] BY <1>0, <1>2 DEF States
<1> USE DEF files, history
<1>5. UNCHANGED <<disk, tmp, main, ctxDone, stopChan, loop, todo, saver, bounds, overlap>>
  BY DEF UpdateStep, FetchFails, Fail, BackoffOver, BackoffCancelled, Unchanged, Changed, Renew,
         SaveContent
<1>6. \A q \in Updaters \ {p} : upd'[q] = upd[q]
  BY <1>0 DEF UpdateStep, FetchFails, Fail, BackoffOver, BackoffCancelled, Unchanged, Changed, Renew,
              SaveContent, Returns
<1>7. \A v \in Urls \ {u} : states'[v] = states[v]
  <2>1. states' = states \/ (\E x : states' = [states EXCEPT ![u] = x])
        \/ states' = [states EXCEPT ![u].updated = FALSE]
    BY DEF UpdateStep, FetchFails, Fail, BackoffOver, BackoffCancelled, Unchanged, Changed, Renew,
           SaveContent
  <2> QED BY <1>0, <2>1 DEF States
<1>8. ASSUME NEW v \in Urls \ {u}, v \notin lost'
      PROVE  v \notin lost /\ Holding(v)' = Holding(v)
  <2>1. CASE UNCHANGED <<content, lost>> BY <1>8, <2>1 DEF Holding
  <2>2. CASE /\ content' = [content EXCEPT ![FileOf[u]] = upd[p].got]
             /\ lost' = (lost \ {u}) \cup Sharing(u)
    <3>1. v \notin lost /\ FileOf[v] # FileOf[u] BY <1>8, <2>2 DEF Sharing
    <3> QED BY <1>0, <2>2, <3>1, FileOfUrls DEF Holding
  <2>3. CASE content' = content /\ lost' = lost \cup {u} BY <1>8, <2>3 DEF Holding
  <2> QED BY <2>1, <2>2, <2>3
      DEF UpdateStep, FetchFails, Fail, BackoffOver, BackoffCancelled, Unchanged, Changed, Renew,
          SaveContent
<1>9. ASSUME Fail(p)
      PROVE  /\ lock' = "free" /\ UNCHANGED <<content, lost>> /\ upd'[p].at = "none"
             /\ states'[u].hash \in {states[u].hash, "none"}
  <2>1. upd'[p] = NoUpdate /\ lock' = "free" BY <1>0, <1>9 DEF Fail, Returns
  <2>2. states'[u] = Previous(u) BY <1>0, <1>2, <1>9 DEF Fail, States
  <2> QED BY <1>9, <2>1, <2>2 DEF Fail, Previous, NewState, NoUpdate
<1>10. ASSUME upd[p].at = "fetch", NEW t \in 0 .. MaxRetries, t = upd[p].tries, FetchFails(p), t # MaxRetries
       PROVE  /\ lock' = lock /\ UNCHANGED <<states, content, lost>>
              /\ upd'[p].url = u /\ upd'[p].at = "backoff" /\ upd'[p].tries < MaxRetries
  <2>1. upd'[p] = [upd[p] EXCEPT !.at = "backoff"] BY <1>0, <1>10 DEF FetchFails
  <2>2. t < MaxRetries BY <1>10, UpdaterAssumption
  <2> QED BY <1>3, <1>10, <2>1, <2>2 DEF FetchFails, Updates
<1>11. CASE FetchFails(p)
  <2>1. upd[p].tries \in 0 .. MaxRetries /\ upd[p].at = "fetch" BY <1>3, <1>11 DEF Updates, FetchFails
  <2>2. CASE upd[p].tries = MaxRetries
    <3>1. Fail(p) BY <1>11, <2>2 DEF FetchFails
    <3> QED BY <1>2, <1>1, <1>5, <1>6, <1>7, <1>8, <1>9, <2>1, <3>1
  <2>3. CASE upd[p].tries # MaxRetries
    BY <1>2, <1>1, <1>5, <1>6, <1>7, <1>8, <1>10, <1>11, <2>1, <2>3
  <2> QED BY <2>2, <2>3
<1>12. CASE BackoffOver(p)
  <2>1. upd' = [upd EXCEPT ![p] = [upd[p] EXCEPT !.at = "fetch", !.tries = @ + 1]]
    BY <1>0, <1>12 DEF BackoffOver
  <2>2. upd'[p].at = "fetch" /\ upd'[p].url = u BY <1>0, <1>3, <2>1 DEF Updates
  <2> QED BY <1>2, <1>1, <1>5, <1>6, <1>7, <1>8, <1>12, <2>2 DEF BackoffOver
<1>13. CASE BackoffCancelled(p)
  BY <1>2, <1>1, <1>5, <1>6, <1>7, <1>8, <1>9, <1>13 DEF BackoffCancelled
<1>14. CASE Unchanged(p)
  <2>1. states'[u].hash = states[u].hash
    <3>1. states'[u] = [states[u] EXCEPT !.updated = FALSE] BY <1>0, <1>2, <1>14 DEF Unchanged, States
    <3> QED BY <1>4, <3>1
  <2>2. upd'[p] = NoUpdate BY <1>0, <1>14 DEF Unchanged, Returns
  <2> QED BY <1>2, <1>1, <1>5, <1>6, <1>7, <1>8, <1>14, <2>1, <2>2 DEF Unchanged, Returns, NoUpdate
<1>15. CASE Changed(p)
  <2>1. PICK c \in Contents :
           /\ states' = [states EXCEPT ![u] = [hash |-> HashOf[c], updated |-> TRUE]]
           /\ upd' = [upd EXCEPT ![p].at = "content", ![p].got = c]
    BY <1>15 DEF Changed, Renew
  <2>2. upd' = [upd EXCEPT ![p] = [upd[p] EXCEPT !.at = "content", !.got = c]] BY <1>0, <2>1
  <2>3. upd'[p].at = "content" /\ upd'[p].got = c /\ upd'[p].url = u BY <1>0, <1>3, <2>2 DEF Updates
  <2>4. states'[u].hash = HashOf[c] BY <1>0, <1>2, <2>1 DEF States
  <2> QED BY <1>2, <1>1, <1>5, <1>6, <1>7, <1>8, <1>15, <2>3, <2>4 DEF Changed, Renew
<1>16. CASE SaveContent(p)
  <2>1. Holding(u)' = upd[p].got \/ u \in lost' BY <1>0, <1>2, <1>16, FileOfUrls DEF SaveContent, Holding
  <2>2. upd'[p] = NoUpdate BY <1>0, <1>16 DEF SaveContent, Returns
  <2> QED BY <1>2, <1>1, <1>5, <1>6, <1>7, <1>8, <1>16, <2>1, <2>2 DEF SaveContent, Returns, NoUpdate
<1> QED BY <1>11, <1>12, <1>13, <1>14, <1>15, <1>16 DEF UpdateStep

\* A step of a save is its thread's, and leaves the saves of the others where they are.
LEMMA SaveEffects ==
    ASSUME TypeOK, NEW p \in Threads, SaveState(p)
    PROVE  /\ saver[p].at \in {"opened", "written"}
           /\ \A q \in Threads \ {p} : saver'[q].at = saver[q].at /\ saver'[q].snap = saver[q].snap
           /\ UNCHANGED <<content, main, ctxDone, stopChan, loop, todo, lock, states, upd, bounds, history>>
<1>0. saver \in [Threads -> Savers] BY DEF TypeOK, Savers
<1>1. CASE WriteTmp(p) BY <1>0, <1>1 DEF WriteTmp
<1>2. CASE RenameTmp(p)
  <2>1. \A q \in Threads : [saver[q] EXCEPT !.fd = Moved(@)].at = saver[q].at
                           /\ [saver[q] EXCEPT !.fd = Moved(@)].snap = saver[q].snap
    BY <1>0 DEF Savers
  <2>2. \A q \in Threads \ {p} : saver'[q] \in {saver[q], [saver[q] EXCEPT !.fd = Moved(@)]}
    BY <1>0, <1>2 DEF RenameTmp
  <2> QED BY <1>2, <2>1, <2>2 DEF RenameTmp
<1> QED BY <1>1, <1>2 DEF SaveState

-----------------------------------------------------------------------------
(* The steps.                                                              *)

\* Every step keeps what is known of the lock.
LEMMA LockingStep == TypeOK /\ Locking /\ [Next]_vars => Locking'
<1> SUFFICES ASSUME TypeOK, Locking, [Next]_vars PROVE Locking' OBVIOUS
<1>0. /\ saver \in [Threads -> Savers] /\ upd \in [Updaters -> Updates]
      /\ states \in States
  BY DEF TypeOK, Savers, Updates, Updaters
<1> USE DEF files, history
<1>1. CASE Launch BY <1>1 DEF Launch, Locking
<1>2. CASE TickCycle \/ QuitLoop \/ StartReturns \/ CallStop \/ EndContext \/ CycleCancelled
  BY <1>2 DEF TickCycle, QuitLoop, StartReturns, CallStop, EndContext, CycleCancelled, InCycle, Locking
<1>3. ASSUME NEW p \in Updaters, NEW u \in Urls, LockUpdate(p, u),
             UNCHANGED <<main, states, saver>>, main # "down"
      PROVE  Locking'
  <2>1. lock = "free" /\ lock' = p BY <1>3 DEF LockUpdate
  <2>2. \A q \in Updaters : upd[q].at = "none" BY <2>1 DEF Locking, Updaters
  <2>3. upd'[p].at = "fetch" /\ upd'[p].url = u BY <1>0, <1>3 DEF LockUpdate, NoUpdate
  <2>4. \A q \in Updaters \ {p} : upd'[q] = upd[q] BY <1>0, <1>3 DEF LockUpdate
  <2>5. saver["api"].at = "none" BY <2>1 DEF Locking
  <2> QED BY <1>3, <2>1, <2>2, <2>3, <2>4, <2>5 DEF Locking
<1>4. ASSUME NEW u \in Urls, CycleNext(u) PROVE Locking'
  BY <1>3, <1>4 DEF CycleNext, InCycle, Updaters, Locking
<1>5. ASSUME NEW p \in {"loop", "main"}, NEW x, main # "down",
             \/ saver' = [saver EXCEPT ![p] = x]
             \/ BeginSave(p, x)
             \/ SaveState(p),
             UNCHANGED <<lock, states, upd>>, main' # "down"
      PROVE  Locking'
  <2>1. p \in Threads /\ "api" \in Threads /\ p # "api" BY DEF Threads
  <2>2. saver'["api"].at = saver["api"].at BY <1>0, <1>5, <2>1, SaveEffects DEF BeginSave
  <2> QED BY <1>5, <2>2 DEF Locking
<1>6. CASE CycleSaves BY <1>5, <1>6 DEF CycleSaves, InCycle, Locking
<1>7. CASE CycleEnds BY <1>5, <1>7 DEF CycleEnds, Locking
<1>8. CASE StopSaves BY <1>5, <1>8 DEF StopSaves
<1>9. ASSUME NEW p \in {"loop", "main"}, SaveState(p) PROVE Locking'
  <2>1. saver[p].at # "none" /\ UNCHANGED <<main, lock, states, upd>>
    BY <1>9, SaveEffects DEF Threads
  <2>2. main # "down" BY <2>1 DEF Locking, Threads
  <2> QED BY <1>5, <1>9, <2>1, <2>2
<1>10. CASE SaveState("api")
  <2>1. saver["api"].at # "none" /\ UNCHANGED <<main, lock, states, upd>>
    BY <1>10, SaveEffects DEF Threads
  <2>2. main # "down" BY <2>1 DEF Locking, Threads
  <2> QED BY <2>1, <2>2 DEF Locking
<1>11. CASE AddOrRemoveReturns
  <2>1. saver["api"].at # "none" BY <1>11 DEF AddOrRemoveReturns, Saved
  <2>2. main # "down" /\ lock = "api" /\ \A q \in Updaters : upd[q].at = "none"
    BY <2>1 DEF Locking, Threads, Updaters
  <2>3. saver'["api"].at = "none" BY <1>0, <1>11 DEF AddOrRemoveReturns, Threads, NoSave
  <2> QED BY <1>11, <2>2, <2>3 DEF AddOrRemoveReturns, Locking
<1>12. ASSUME NEW p \in Updaters, UpdateStep(p) PROVE Locking'
  <2> DEFINE u == upd[p].url
  <2>1. /\ u \in Urls /\ lock = p /\ upd[p].at # "none"
        /\ UNCHANGED <<main, saver>>
        /\ \A q \in Updaters \ {p} : upd'[q] = upd[q]
    BY <1>12, UpdateEffects
  <2>2. \A q \in Updaters \ {p} : upd'[q].at = "none" BY <2>1 DEF Locking
  <2>3. main # "down" /\ saver["api"].at = "none" BY <2>1 DEF Locking, Updaters
  <2>4. \/ upd'[p].at = "none"
        \/ /\ lock' = p /\ upd'[p].url = u
           /\ \/ upd'[p].at = "fetch"
              \/ upd'[p].at = "backoff" /\ upd'[p].tries < MaxRetries
              \/ upd'[p].at = "content" /\ upd'[p].got \in Contents
                 /\ states'[u].hash = HashOf[upd'[p].got]
    <3> HIDE DEF u
    <3>1. u = upd[p].url BY DEF u
    <3> QED BY <1>12, <2>1, <3>1, UpdateEffects
  <2> HIDE DEF u
  <2>5. \A q \in Updaters : upd'[q].at # "none" => q = p BY <2>2
  <2> QED BY <2>1, <2>3, <2>4, <2>5 DEF Locking
<1>13. CASE StopReturn \/ StopAgain \/ Crash
  <2>1. Gone BY <1>13 DEF StopReturn, StopAgain, Crash
  <2>2. \A p \in Updaters : upd'[p].at = "none" BY <2>1 DEF Gone, Updaters, NoUpdate
  <2>3. \A p \in Threads : saver'[p].at = "none" BY <2>1 DEF Gone, NoSave
  <2> QED BY <2>1, <2>2, <2>3 DEF Gone, Locking, Threads
<1>14. ASSUME NEW u \in Urls, UpdateSubscriptionNow(u) PROVE Locking'
  BY <1>3, <1>14 DEF UpdateSubscriptionNow, CallApi, Updaters
<1>15. ASSUME NEW u \in Urls, AddOrRemove(u) PROVE Locking'
  <2>1. \A q \in Updaters : upd[q].at = "none" BY <1>15 DEF AddOrRemove, Locking, Updaters
  <2> QED BY <1>15, <2>1 DEF AddOrRemove, CallApi, Locking, Updaters
<1>16. CASE ResetUpdatedFlags
  <2>1. \A q \in Updaters : upd[q].at = "none" BY <1>16 DEF ResetUpdatedFlags, Locking, Updaters
  <2> QED BY <1>16, <2>1 DEF ResetUpdatedFlags, CallApi, Locking
<1>17. CASE UNCHANGED vars BY <1>17 DEF vars, process, Locking
<1> QED BY <1>1, <1>2, <1>4, <1>6, <1>7, <1>8, <1>9, <1>10, <1>11, <1>12, <1>13, <1>14, <1>15,
           <1>16, <1>17
        DEF Next, LoopStep, MainStep, ApiStep, Updaters

\* saveState begins alone, or the saves overlap.
LEMMA BeginSaveAlone ==
    ASSUME TypeOK, OneSaver, NEW p \in Threads, NEW ss, BeginSave(p, ss)
    PROVE  OneSaver'
<1>0. saver \in [Threads -> Savers] BY DEF TypeOK, Savers
<1> SUFFICES ASSUME ~overlap' PROVE OneSaver' BY DEF OneSaver
<1>1. ~overlap /\ \A q \in Threads \ {p} : ~Saving(q) BY DEF BeginSave
<1>2. \A q \in Threads \ {p} : saver'[q] = saver[q] BY <1>0 DEF BeginSave
<1>3. (saver'[p].at = "opened" /\ saver'[p].fd = "tmp") \/ saver'[p].at = "failed"
  BY <1>0 DEF BeginSave, NoSave
<1>4. \A q \in Threads \ {p} : saver'[q].at \notin {"opened", "written"} BY <1>1, <1>2 DEF Saving
<1>5. disk'.is # "torn" BY <1>1 DEF OneSaver, BeginSave
<1> QED BY <1>3, <1>4, <1>5 DEF OneSaver, Saving

\* Every step keeps what is known of the saves.
LEMMA OneSaverStep == TypeOK /\ OneSaver /\ [Next]_vars => OneSaver'
<1> SUFFICES ASSUME TypeOK, OneSaver, [Next]_vars PROVE OneSaver' OBVIOUS
<1>0. saver \in [Threads -> Savers] BY DEF TypeOK, Savers
<1> USE DEF files, history
<1>1. CASE UNCHANGED <<saver, disk, tmp, overlap>> BY <1>1 DEF OneSaver, Saving
<1>2. ASSUME NEW p \in Threads, saver' = [saver EXCEPT ![p] = NoSave], UNCHANGED <<disk, tmp, overlap>>
      PROVE  OneSaver'
  <2>1. \A q \in Threads : saver'[q].at \in {"opened", "written"} => q # p /\ saver'[q] = saver[q]
    BY <1>0, <1>2 DEF NoSave
  <2> QED BY <1>2, <2>1 DEF OneSaver, Saving
<1>3. ASSUME NEW p \in Threads, NEW ss, BeginSave(p, ss) PROVE OneSaver' BY <1>3, BeginSaveAlone
<1>4. ASSUME NEW p \in Threads, SaveState(p) PROVE OneSaver'
  <2> SUFFICES ASSUME ~overlap' PROVE OneSaver' BY DEF OneSaver
  <2>1. /\ saver[p].at \in {"opened", "written"}
        /\ \A q \in Threads \ {p} : saver'[q].at = saver[q].at
        /\ ~overlap
    BY <1>4, SaveEffects
  <2>2. \A q \in Threads \ {p} : saver'[q].at \notin {"opened", "written"}
    BY <2>1 DEF OneSaver, Saving
  <2>3. CASE WriteTmp(p)
    <3>1. saver'[p].at = "written" BY <1>0, <2>3 DEF WriteTmp
    <3>2. tmp' = Holds(saver[p].snap) /\ disk' = disk BY <2>1, <2>3 DEF WriteTmp, OneSaver
    <3> QED BY <2>1, <2>2, <3>1, <3>2 DEF OneSaver, Saving, Holds
  <2>4. CASE RenameTmp(p)
    <3>1. tmp.is = "states" BY <2>1, <2>4 DEF RenameTmp, OneSaver
    <3>2. tmp # Missing BY <3>1 DEF Missing
    <3>3. disk' = tmp BY <2>4, <3>2 DEF RenameTmp
    <3>4. saver'[p].at = "done"
      <4>1. saver' = [q \in Threads |->
                        IF q = p THEN [saver[p] EXCEPT !.at = "done"]
                        ELSE [saver[q] EXCEPT !.fd = Moved(@)]]
        BY <2>4, <3>2 DEF RenameTmp
      <4>2. saver'[p] = [saver[p] EXCEPT !.at = "done"] BY <4>1
      <4> QED BY <1>0, <4>2 DEF Savers
    <3> QED BY <2>1, <2>2, <3>1, <3>3, <3>4 DEF OneSaver, Saving
  <2> QED BY <1>4, <2>3, <2>4 DEF SaveState
<1>5. CASE Gone
  <2>1. \A q \in Threads : saver'[q].at = "none" BY <1>5 DEF Gone, NoSave
  <2> QED BY <1>5, <2>1 DEF Gone, OneSaver, Saving
<1>6. ASSUME NEW p \in Updaters, UpdateStep(p) PROVE UNCHANGED <<saver, disk, tmp, overlap>>
  BY <1>6 DEF UpdateStep, FetchFails, Fail, BackoffOver, BackoffCancelled, Unchanged, Changed, Renew,
         SaveContent
<1>7. ASSUME NEW u \in Urls, CycleNext(u) \/ UpdateSubscriptionNow(u)
      PROVE  UNCHANGED <<saver, disk, tmp, overlap>>
  BY <1>7 DEF CycleNext, UpdateSubscriptionNow
<1>8. CASE Launch \/ TickCycle \/ QuitLoop \/ StartReturns \/ CallStop \/ EndContext \/ CycleCancelled
           \/ ResetUpdatedFlags \/ UNCHANGED vars
  BY <1>1, <1>8 DEF Launch, TickCycle, QuitLoop, StartReturns, CallStop, EndContext, CycleCancelled,
                    ResetUpdatedFlags, vars, process
<1>9. CASE CycleSaves \/ StopSaves BY <1>3, <1>9 DEF CycleSaves, StopSaves, Threads
<1>10. CASE CycleEnds \/ AddOrRemoveReturns
  BY <1>2, <1>10 DEF CycleEnds, AddOrRemoveReturns, Threads
<1>11. ASSUME NEW u \in Urls, AddOrRemove(u) PROVE OneSaver'
  BY <1>3, <1>11 DEF AddOrRemove, Threads
<1>12. CASE StopReturn \/ StopAgain \/ Crash BY <1>5, <1>12 DEF StopReturn, StopAgain, Crash
<1> QED BY <1>1, <1>4, <1>6, <1>7, <1>8, <1>9, <1>10, <1>11, <1>12
        DEF Next, LoopStep, MainStep, ApiStep, Updaters, Threads

\* What stands for nothing is no hash.
LEMMA NoHash == "none" \notin Hashes /\ "absent" \notin Hashes
BY UpdaterAssumption DEF Hashes

\* Every step keeps what is known of the contents.
LEMMA ContentedStep == TypeOK /\ Locking /\ Contented /\ [Next]_vars => Contented'
<1> SUFFICES ASSUME TypeOK, Locking, Contented, [Next]_vars PROVE Contented' OBVIOUS
<1>0. upd \in [Updaters -> Updates] /\ states \in States
  BY DEF TypeOK, Updates, Updaters
<1> USE DEF files, history
\* Steps that leave the contents, the hashes and the updates as they are.
<1>1. ASSUME UNCHANGED <<content, lost, states, upd>>, main # "down", main' # "down"
      PROVE  Contented'
  BY <1>1 DEF Contented, Follows, Holding, Replacing
<1>2. CASE Launch
  <2>1. main = "down" /\ main' = "start" /\ states' = disk.states /\ UNCHANGED <<content, lost>>
    BY <1>2 DEF Launch
  <2> QED BY <2>1 DEF Contented, Follows, Holding
<1>3. CASE TickCycle \/ QuitLoop \/ StartReturns \/ CallStop \/ EndContext \/ CycleCancelled
           \/ CycleSaves \/ CycleEnds \/ StopSaves
  BY <1>1, <1>3 DEF TickCycle, QuitLoop, StartReturns, CallStop, EndContext, CycleCancelled,
       CycleSaves, CycleEnds, StopSaves, InCycle, Locking
<1>4. ASSUME NEW p \in Threads, SaveState(p) PROVE Contented'
  <2>1. saver[p].at # "none" /\ UNCHANGED <<main, content, lost, states, upd>>
    BY <1>4, SaveEffects
  <2>2. main # "down" BY <2>1 DEF Locking
  <2> QED BY <1>1, <2>1, <2>2
<1>5. CASE AddOrRemoveReturns
  <2>1. saver["api"].at # "none" BY <1>5 DEF AddOrRemoveReturns, Saved
  <2>2. main # "down" BY <2>1 DEF Locking, Threads
  <2> QED BY <1>1, <1>5, <2>2 DEF AddOrRemoveReturns
<1>6. ASSUME NEW p \in Updaters, NEW u \in Urls, LockUpdate(p, u),
             UNCHANGED <<main, content, lost, states>>, main # "down"
      PROVE  Contented'
  <2>1. \A v \in Urls : ~Replacing(v) BY <1>6 DEF LockUpdate, Locking, Replacing, Updaters
  <2> QED BY <1>6, <2>1 DEF Contented, Follows, Holding
<1>7. ASSUME NEW u \in Urls, CycleNext(u) \/ UpdateSubscriptionNow(u) PROVE Contented'
  BY <1>6, <1>7 DEF CycleNext, InCycle, UpdateSubscriptionNow, CallApi, Locking, Updaters
<1>8. ASSUME NEW p \in Updaters, UpdateStep(p) PROVE Contented'
  <2>0. PICK u : u = upd[p].url OBVIOUS
  <2>1. /\ u \in Urls /\ lock = p /\ upd[p].at # "none"
        /\ UNCHANGED <<disk, main>>
        /\ \A q \in Updaters \ {p} : upd'[q] = upd[q]
        /\ \A v \in Urls \ {u} : /\ states'[v] = states[v]
                                 /\ v \notin lost' => v \notin lost /\ Holding(v)' = Holding(v)
    BY <1>8, <2>0, UpdateEffects
  <2>2. main # "down" BY <2>1 DEF Locking
  <2>3. \A q \in Updaters \ {p} : upd[q].at = "none" BY <2>1 DEF Locking
  <2>4. ASSUME NEW v \in Urls \ {u}, v \notin lost' PROVE Follows(v, states[v].hash)'
    <3>1. ~Replacing(v) BY <2>0, <2>3 DEF Replacing, Updaters
    <3>2. Follows(v, states[v].hash) BY <2>1, <2>2, <2>4, <3>1 DEF Contented
    <3> QED BY <2>1, <2>4, <3>2 DEF Follows
  <2>5. ASSUME u \notin lost' PROVE (Replacing(u) \/ Follows(u, states[u].hash))'
    <3>1. CASE /\ upd[p].at # "content" /\ UNCHANGED <<states, content, lost>>
      <4>1. ~Replacing(u) BY <2>3, <3>1 DEF Replacing, Updaters
      <4> QED BY <2>1, <2>2, <2>5, <3>1, <4>1 DEF Contented, Follows, Holding
    <3>2. CASE upd'[p].url = u /\ upd'[p].at = "content"
      BY <3>2 DEF Replacing, Updaters
    <3>3. CASE /\ upd[p].at # "content" /\ UNCHANGED <<content, lost>>
               /\ states'[u].hash \in {states[u].hash, "none"}
      <4>1. ~Replacing(u) BY <2>3, <3>3 DEF Replacing, Updaters
      <4>2. Follows(u, states[u].hash) BY <2>1, <2>2, <2>5, <3>3, <4>1 DEF Contented
      <4> QED BY <3>3, <4>2, NoHash DEF Follows, Holding
    <3>4. CASE /\ upd[p].at = "content" /\ UNCHANGED states
               /\ Holding(u)' = upd[p].got
      <4>1. upd[p].got \in Contents /\ states[u].hash = HashOf[upd[p].got]
        BY <2>0, <3>4 DEF Locking
      <4>2. upd[p].got # "none" BY <4>1, UpdaterAssumption
      <4> QED BY <3>4, <4>1, <4>2 DEF Follows, Holding
    <3>5. \/ /\ upd[p].at # "content" /\ UNCHANGED <<states, content, lost>>
          \/ upd'[p].url = u /\ upd'[p].at = "content"
          \/ /\ upd[p].at # "content" /\ UNCHANGED <<content, lost>>
             /\ states'[u].hash \in {states[u].hash, "none"}
          \/ /\ upd[p].at = "content" /\ UNCHANGED states
             /\ Holding(u)' = upd[p].got
      BY <1>8, <2>0, <2>5, UpdateEffects
    <3> QED BY <3>1, <3>2, <3>3, <3>4, <3>5
  <2> QED BY <2>1, <2>2, <2>4, <2>5 DEF Contented
<1>9. CASE StopReturn \/ StopAgain \/ Crash
  <2>1. Gone /\ main # "down" BY <1>9 DEF StopReturn, StopAgain, Crash
  <2> SUFFICES ASSUME NEW u \in Urls, u \notin lost' PROVE Follows(u, disk.states[u].hash)'
    BY <2>1 DEF Contented, Gone
  <2>2. u \notin lost /\ states[u].hash = disk.states[u].hash BY <2>1 DEF Gone
  <2>3. ~Replacing(u) BY <2>1 DEF Gone, Replacing
  <2>4. Follows(u, disk.states[u].hash) BY <2>1, <2>2, <2>3 DEF Contented
  <2> QED BY <2>1, <2>4 DEF Gone, Follows, Holding
<1>10. ASSUME NEW u \in Urls, AddOrRemove(u) PROVE Contented'
  <2>1. /\ main # "down" /\ UNCHANGED <<main, content, lost, upd>>
        /\ states' = [states EXCEPT ![u] = NewState] \/ states' = [states EXCEPT ![u] = NoState]
    BY <1>10 DEF AddOrRemove, CallApi
  <2>2. \A v \in Urls \ {u} : states'[v] = states[v] BY <1>0, <2>1 DEF States
  <2>3. states'[u].hash \notin Hashes BY <1>0, <2>1, NoHash DEF States, NewState, NoState
  <2> QED BY <2>1, <2>2, <2>3 DEF Contented, Follows, Holding, Replacing
<1>11. CASE ResetUpdatedFlags
  <2>1. \A v \in Urls : states[v] \in [hash : Hashes \cup {"none", "absent"}, updated : BOOLEAN]
    BY <1>0 DEF States
  <2>2. \A v \in Urls : states'[v].hash = states[v].hash BY <1>11, <2>1 DEF ResetUpdatedFlags
  <2> QED BY <1>11, <2>2 DEF ResetUpdatedFlags, CallApi, Contented, Follows, Holding, Replacing
<1>12. CASE UNCHANGED vars BY <1>12 DEF vars, process, Contented, Follows, Holding, Replacing
<1> QED BY <1>2, <1>3, <1>4, <1>5, <1>7, <1>8, <1>9, <1>10, <1>11, <1>12
        DEF Next, LoopStep, MainStep, ApiStep, Updaters, Threads

\* Every step keeps what is known of the loop and Stop.
LEMMA StoppingStep == TypeOK /\ Locking /\ OneSaver /\ Stopping /\ [Next]_vars => Stopping'
<1> SUFFICES ASSUME TypeOK, Locking, OneSaver, Stopping, [Next]_vars PROVE Stopping' OBVIOUS
<1>called. CASE bounds'.calls # 0 BY <1>called DEF Stopping
<1> SUFFICES ASSUME bounds'.calls = 0 PROVE Stopping' BY <1>called
<1>0. /\ saver \in [Threads -> Savers] /\ upd \in [Updaters -> Updates]
  BY DEF TypeOK, Savers, Updates, Updaters
<1> USE DEF files, history
<1>1. CASE Launch
  <2>1. bounds'.calls = bounds.calls BY <1>1 DEF Launch, TypeOK
  <2>2. bounds.calls = 0 BY <2>1
  <2>3. /\ ~overlap /\ \A p \in Updaters : upd[p].at = "none"
        /\ \A p \in Threads : saver[p].at = "none"
    BY <1>1, <2>2 DEF Launch, Locking, Stopping
  <2> QED BY <1>1, <2>3 DEF Launch, Stopping, Updaters, Threads
<1>2. CASE TickCycle
  <2>1. bounds.calls = 0 BY <1>2, EventTypes DEF TickCycle
  <2> QED BY <1>2, <2>1 DEF TickCycle, BeginCycle, Stopping
<1>3. CASE QuitLoop \/ StartReturns \/ CallStop \/ EndContext
  BY <1>3 DEF QuitLoop, StartReturns, CallStop, EndContext, Stopping
<1>4. ASSUME NEW u \in Urls, CycleNext(u) PROVE Stopping'
  <2>1. upd'["api"] = upd["api"] BY <1>0, <1>4 DEF CycleNext, LockUpdate, Updaters
  <2> QED BY <1>4, <2>1 DEF CycleNext, InCycle, Stopping
<1>5. CASE CycleCancelled
  BY <1>5 DEF CycleCancelled, InCycle, Stopping, NoUpdate
<1>6. ASSUME NEW p \in Threads, NEW ss, BeginSave(p, ss), \A q \in Threads \ {p} : saver[q].at = "none",
             ~overlap
      PROVE  /\ \A q \in Threads \ {p} : saver'[q] = saver[q]
             /\ (saver'[p].at = "opened" /\ saver'[p].snap = ss) \/ saver'[p].at = "failed"
             /\ ~overlap' /\ disk' = disk
  <2>1. \A q \in Threads \ {p} : ~Saving(q) BY <1>6 DEF Saving
  <2>2. ~overlap' BY <1>6, <2>1 DEF BeginSave
  <2>3. \A q \in Threads \ {p} : saver'[q] = saver[q] BY <1>0, <1>6 DEF BeginSave
  <2>4. (saver'[p].at = "opened" /\ saver'[p].snap = ss) \/ saver'[p].at = "failed"
    BY <1>0, <1>6 DEF BeginSave, NoSave
  <2>5. disk' = disk BY <1>6 DEF BeginSave
  <2> QED BY <2>2, <2>3, <2>4, <2>5
<1>7. CASE CycleSaves
  <2>1. bounds.calls = 0 /\ loop = "cycle" /\ main # "save"
    BY <1>7 DEF CycleSaves, InCycle, Stopping
  <2>2. saver["api"].at = "none" /\ saver["main"].at = "none" /\ ~overlap
    BY <2>1 DEF Stopping
  <2>3. BeginSave("loop", states) BY <1>7 DEF CycleSaves
  <2>4. saver'["api"] = saver["api"] /\ saver'["main"] = saver["main"] /\ ~overlap'
    BY <1>6, <2>2, <2>3 DEF Threads
  <2>5. upd["loop"].at = "none" BY <1>7 DEF CycleSaves, InCycle, NoUpdate
  <2>6. UNCHANGED <<main, upd, bounds>> /\ loop' = "save" BY <1>7 DEF CycleSaves
  <2>7. upd["api"].at = "none" BY <2>1 DEF Stopping
  <2> QED BY <2>1, <2>2, <2>4, <2>5, <2>6, <2>7 DEF Stopping
<1>8. CASE CycleEnds
  <2>1. saver'["loop"] = NoSave /\ saver'["api"] = saver["api"] /\ saver'["main"] = saver["main"]
    BY <1>0, <1>8 DEF CycleEnds, Threads
  <2>2. main # "save" BY <1>8 DEF CycleEnds, Stopping
  <2> QED BY <1>8, <2>1, <2>2 DEF CycleEnds, Stopping, NoSave
<1>9. CASE StopSaves
  <2>1. bounds.calls = 0 /\ loop = "left" BY <1>9 DEF StopSaves
  <2>2. saver["api"].at = "none" /\ saver["loop"].at = "none" /\ ~overlap
    BY <2>1 DEF Stopping
  <2>3. BeginSave("main", states) BY <1>9 DEF StopSaves
  <2>4. /\ saver'["api"] = saver["api"] /\ saver'["loop"] = saver["loop"] /\ ~overlap'
        /\ \/ saver'["main"].at = "opened" /\ saver'["main"].snap = states
           \/ saver'["main"].at = "failed"
    BY <1>6, <2>2, <2>3 DEF Threads
  <2>5. UNCHANGED <<loop, upd, bounds, states>> /\ main' = "save" BY <1>9 DEF StopSaves
  <2>6. upd["api"].at = "none" /\ upd["loop"].at = "none" BY <2>1 DEF Stopping
  <2> QED BY <2>1, <2>2, <2>4, <2>5, <2>6 DEF Stopping
<1>10. ASSUME NEW p \in Updaters, UpdateStep(p) PROVE Stopping'
  <2>1. /\ upd[p].at # "none"
        /\ UNCHANGED <<disk, tmp, main, loop, saver, bounds, overlap>>
        /\ \A q \in Updaters \ {p} : upd'[q] = upd[q]
    BY <1>10, UpdateEffects
  <2>2. p = "loop" /\ loop = "cycle" BY <2>1 DEF Stopping, Updaters
  <2>3. upd'["api"] = upd["api"] BY <2>1, <2>2 DEF Updaters
  <2> QED BY <2>1, <2>2, <2>3 DEF Stopping
<1>11. ASSUME NEW p \in Threads, SaveState(p) PROVE Stopping'
  <2>1. /\ saver[p].at \in {"opened", "written"}
        /\ \A q \in Threads \ {p} : saver'[q].at = saver[q].at /\ saver'[q].snap = saver[q].snap
        /\ UNCHANGED <<main, loop, states, upd, bounds, history>>
    BY <1>11, SaveEffects
  <2>2. CASE p = "loop"
    <3>1. loop = "save" /\ main # "save" BY <2>1, <2>2 DEF Stopping
    <3>2. saver'["api"].at = saver["api"].at /\ saver'["main"].at = saver["main"].at
      BY <2>1, <2>2 DEF Threads
    <3> QED BY <2>1, <3>1, <3>2 DEF Stopping
  <2>3. CASE p = "main"
    <3>1. main = "save" /\ loop = "left" /\ ~overlap BY <2>1, <2>3 DEF Stopping
    <3>2. saver'["api"].at = saver["api"].at /\ saver'["loop"].at = saver["loop"].at
      BY <2>1, <2>3 DEF Threads
    <3>3. \/ saver'["main"].at = "written" /\ tmp' = Holds(states)
          \/ saver'["main"].at = "done" /\ disk' = Holds(states)
      <4>1. CASE WriteTmp("main")
        <5>1. saver["main"].at = "opened" /\ saver["main"].snap = states /\ saver["main"].fd = "tmp"
          BY <2>1, <2>3, <3>1, <4>1 DEF WriteTmp, Stopping, OneSaver
        <5>2. tmp' = Holds(states) BY <3>1, <4>1, <5>1 DEF WriteTmp
        <5>3. saver'["main"].at = "written" BY <1>0, <4>1 DEF WriteTmp, Threads
        <5> QED BY <5>2, <5>3
      <4>2. CASE RenameTmp("main")
        <5>1. tmp = Holds(states) BY <2>1, <3>1, <4>2 DEF RenameTmp, Stopping
        <5>2. tmp # Missing BY <5>1 DEF Holds, Missing
        <5>3. disk' = tmp BY <4>2, <5>2 DEF RenameTmp
        <5>4. saver' = [q \in Threads |->
                          IF q = "main" THEN [saver["main"] EXCEPT !.at = "done"]
                          ELSE [saver[q] EXCEPT !.fd = Moved(@)]]
          BY <4>2, <5>2 DEF RenameTmp
        <5>5. saver'["main"] = [saver["main"] EXCEPT !.at = "done"] BY <5>4 DEF Threads
        <5>6. saver'["main"].at = "done" BY <1>0, <5>5 DEF Savers, Threads
        <5> QED BY <5>1, <5>3, <5>6
      <4> QED BY <1>11, <2>3, <4>1, <4>2 DEF SaveState
    <3> QED BY <2>1, <3>1, <3>2, <3>3 DEF Stopping
  <2>4. CASE p = "api" BY <2>1, <2>4 DEF Stopping
  <2> QED BY <2>2, <2>3, <2>4 DEF Threads
<1>12. CASE AddOrRemoveReturns
  <2>1. saver["api"].at # "none" BY <1>12 DEF AddOrRemoveReturns, Saved
  <2> QED BY <1>12, <2>1 DEF AddOrRemoveReturns, Stopping
<1>13. CASE StopReturn \/ StopAgain \/ Crash
  <2>1. Gone BY <1>13 DEF StopReturn, StopAgain, Crash
  <2>2. \A p \in Updaters : upd'[p].at = "none" BY <2>1 DEF Gone, Updaters, NoUpdate
  <2>3. \A p \in Threads : saver'[p].at = "none" BY <2>1 DEF Gone, NoSave
  <2> QED BY <2>1, <2>2, <2>3 DEF Gone, Stopping, Updaters, Threads
<1>14. ASSUME NEW u \in Urls, UpdateSubscriptionNow(u) \/ AddOrRemove(u) PROVE FALSE
  BY <1>14, EventTypes DEF UpdateSubscriptionNow, AddOrRemove, CallApi
<1>15. CASE ResetUpdatedFlags BY <1>15, EventTypes DEF ResetUpdatedFlags, CallApi
<1>16. CASE UNCHANGED vars BY <1>16 DEF vars, process, Stopping
<1> QED BY <1>1, <1>2, <1>3, <1>4, <1>5, <1>7, <1>8, <1>9, <1>10, <1>11, <1>12, <1>13, <1>14,
           <1>15, <1>16
        DEF Next, LoopStep, MainStep, ApiStep, Updaters, Threads

-----------------------------------------------------------------------------
(* The theorems.                                                           *)

\* The invariant holds at first ...
LEMMA UpdaterInit == Init => UpdaterInv
<1> SUFFICES ASSUME Init PROVE UpdaterInv OBVIOUS
<1>1. \A p \in Updaters : upd[p] = NoUpdate BY DEF Init, Updaters
<1>2. \A p \in Threads : saver[p] = NoSave BY DEF Init
<1>3. TypeOK
  <2>1. upd \in [Updaters -> Updates] /\ saver \in [Threads -> Savers] BY Nothing DEF Init, Updaters
  <2>2. bounds \in [ticks : 0 .. MaxEvents, calls : 0 .. MaxEvents, starts : 0 .. MaxStarts]
    BY UpdaterAssumption DEF Init
  <2> QED BY <2>1, <2>2, Nothing DEF Init, TypeOK, Updates, Savers, Updaters
<1>4. Locking BY <1>1, <1>2 DEF Init, Locking, NoUpdate, NoSave, Threads
<1>5. OneSaver BY <1>2 DEF Init, OneSaver, Saving, NoSave, Missing
<1>6. Contented
  <2>1. \A u \in Urls : disk.states[u].hash = "absent" BY DEF Init, Missing, NoStates, NoState
  <2> QED BY <2>1, NoHash DEF Init, Contented, Follows, Holding
<1>7. Stopping BY <1>1, <1>2 DEF Init, Stopping, NoUpdate, NoSave, Updaters, Threads
<1> QED BY <1>3, <1>4, <1>5, <1>6, <1>7 DEF UpdaterInv

\* ... and every step keeps it.
LEMMA UpdaterNext == UpdaterInv /\ [Next]_vars => UpdaterInv'
BY TypeStep, LockingStep, OneSaverStep, ContentedStep, StoppingStep DEF UpdaterInv

\* Hence it always holds.
THEOREM UpdaterInvariant == Spec => []UpdaterInv
BY UpdaterInit, UpdaterNext, PTL DEF Spec

\* Type correctness of the updater.
THEOREM UpdaterTypes == Spec => []TypeOK
BY UpdaterInvariant, PTL DEF UpdaterInv

\* A stored hash is that of the content in the subscription's file, whatever was
\* interrupted or restarted, but for the three cases of ContentFollowsHash, whichever
\* URLs have one file name (updateSubscription, internal/updater).
THEOREM HashesTellContents == Spec => []ContentFollowsHash
<1>1. UpdaterInv => ContentFollowsHash
  BY DEF UpdaterInv, Contented, Follows, Holding, ContentFollowsHash
<1> QED BY <1>1, UpdaterInvariant, PTL

\* A state file is torn by overlapping saves only (saveState, internal/updater).
THEOREM OneSaveNeverTears == Spec => []TornByOverlapOnly
<1>1. UpdaterInv => TornByOverlapOnly BY DEF UpdaterInv, OneSaver, TornByOverlapOnly
<1> QED BY <1>1, UpdaterInvariant, PTL

\* Stop saves what the loop has learned (Stop, internal/updater).
THEOREM StopSavesAll == Spec => StopKeepsStates
<1> DEFINE Keeps == main = "save" /\ main' = "down" /\ saver["main"].at = "done" /\ bounds.calls = 0
                       => disk.is = "states" /\ disk.states = states
<1>1. UpdaterInv => Keeps BY DEF UpdaterInv, Stopping, Holds
<1> HIDE DEF Keeps
<1>2. Spec => [][Keeps]_vars BY <1>1, UpdaterInvariant, PTL DEF Spec
<1> QED BY <1>2 DEF Keeps, StopKeepsStates
=============================================================================
