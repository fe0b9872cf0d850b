------------------------------ MODULE Updater ------------------------------
(***************************************************************************)
(* internal/updater: the states of subscriptions, the loop that updates    *)
(* them, the calls that another goroutine may make, and the files: the     *)
(* contents of the subscriptions and updater_state.json.  The process may  *)
(* die at any step, and be started again.                                  *)
(*                                                                         *)
(* A fetch is one Get of FetchClient here, a page or an error; the updater *)
(* has its own attempts around it.  Notifications change nothing.          *)
(***************************************************************************)
EXTENDS Integers, FiniteSets

CONSTANTS Urls,       \* the subscriptions in sources.json
          Contents,   \* what a subscription may contain
          HashOf,     \* hashContent, a sum with a length, as a function of the content
          FileOf,     \* sanitizeFilename, which may give two URLs one name
          MaxRetries, \* UpdaterConfig.MaxRetries
          MaxEvents,  \* bound on the ticks of the loop and the calls of the other
                      \* goroutine, over all processes
          MaxStarts   \* bound on the processes

\* NewUpdater replaces a MaxRetries that is not positive.  "none" and "absent" stand for
\* what is neither a content nor a hash.
ASSUME UpdaterAssumption ==
    /\ DOMAIN HashOf = Contents
    /\ DOMAIN FileOf = Urls
    /\ "none" \notin Contents
    /\ \A c \in Contents : HashOf[c] \notin {"none", "absent"}
    /\ MaxRetries \in Nat \ {0}
    /\ {MaxEvents, MaxStarts} \subseteq Nat

Threads == {"loop", "main", "api"}  \* the loop, Start and Stop; the caller of the methods
Hashes  == {HashOf[c] : c \in Contents}
Files   == {FileOf[u] : u \in Urls}

\* The state of a subscription: the hash of its last content and the Updated flag.
\* "absent": it is not in the map; "none": it is, but has no content yet.  The numbers
\* of configs, the times and the text of the last error decide nothing.
NoState  == [hash |-> "absent", updated |-> FALSE]
NewState == [hash |-> "none", updated |-> FALSE]
NoStates == [u \in Urls |-> NoState]

VARIABLES
    content,  \* the files under data/subscriptions, "none" where there is none
    disk,     \* updater_state.json
    tmp,      \* its .tmp file
    \* the process
    main,     \* "down", "start", "run", "stopping" or "save"
    ctxDone,  \* the context of Start is done
    stopChan, \* closed by Stop
    loop,     \* where the loop is: "off", "select", "cycle", "save" or "left"
    todo,     \* the subscriptions that the cycle has not come to
    lock,     \* who holds u.mu, or "free"
    states,   \* u.states
    upd,      \* each thread's updateSubscription
    saver,    \* each thread's saveState
    bounds,   \* ticks, calls and starts so far
    \* history
    lost,     \* the URLs whose file need not hold the content of their hash
    overlap   \* two saves have been under way at once

files   == <<content, disk, tmp>>
process == <<main, ctxDone, stopChan, loop, todo, lock, states, upd, saver>>
history == <<lost, overlap>>
vars    == <<files, process, bounds, history>>

NoUpdate == [at |-> "none", url |-> "none", tries |-> 0, got |-> "none"]
NoSave   == [at |-> "none", snap |-> NoStates, fd |-> "none"]

\* A file that is missing, or not a complete JSON document, or holds the states.
Missing  == [is |-> "missing", states |-> NoStates]
Torn     == [is |-> "torn", states |-> NoStates]
Holds(s) == [is |-> "states", states |-> s]

Init == /\ content = [f \in Files |-> "none"]
        /\ disk = Missing
        /\ tmp = Missing
        /\ main = "down" /\ ctxDone = FALSE /\ stopChan = FALSE
        /\ loop = "off" /\ todo = {}
        /\ lock = "free"
        /\ states = NoStates
        /\ upd = [p \in {"loop", "api"} |-> NoUpdate]
        /\ saver = [p \in Threads |-> NoSave]
        /\ bounds = [ticks |-> 0, calls |-> 0, starts |-> 0]
        /\ lost = {}
        /\ overlap = FALSE

Event(b) == /\ bounds.ticks + bounds.calls < MaxEvents
            /\ bounds' = [bounds EXCEPT ![b] = @ + 1]

-----------------------------------------------------------------------------
(* saveState, which takes no lock of its own.                              *)

Saving(p) == saver[p].at \in {"opened", "written"}
Saved(p)  == saver[p].at \in {"done", "failed"}

\* Mutant: the state file itself is written.
SaveInPlace(p, ss) ==
    /\ saver' = [saver EXCEPT ![p] = [at |-> "opened", snap |-> ss, fd |-> "state"]]
    /\ disk' = Torn
    /\ overlap' = (overlap \/ \E q \in Threads \ {p} : Saving(q))
    /\ UNCHANGED tmp

\* MarshalIndent makes a document of the map, and WriteFile opens and truncates the file;
\* or this fails, or the writing.  An entry of the map is a value of its own, and the
\* properties are about one entry at a time.
BeginSave(p, ss) ==
    /\ \/ /\ saver' = [saver EXCEPT ![p] = [at |-> "opened", snap |-> ss, fd |-> "tmp"]]
          /\ tmp' = Torn
       \/ /\ saver' = [saver EXCEPT ![p] = [NoSave EXCEPT !.at = "failed"]]
          /\ tmp' \in {tmp, Torn}
    /\ overlap' = (overlap \/ \E q \in Threads \ {p} : Saving(q))
    /\ UNCHANGED disk

\* WriteFile writes, wherever the file it opened has been renamed to.  Two writers of
\* one file may leave the end of the longer document behind the other.
WriteTmp(p) ==
    /\ saver[p].at = "opened"
    /\ saver' = [saver EXCEPT ![p] = [NoSave EXCEPT !.at = "written"]]
    /\ \E d \in {Holds(saver[p].snap)} \cup (IF overlap THEN {Torn} ELSE {}) :
          /\ tmp'  = IF saver[p].fd = "tmp"   THEN d ELSE tmp
          /\ disk' = IF saver[p].fd = "state" THEN d ELSE disk
    /\ UNCHANGED <<content, main, ctxDone, stopChan, loop, todo, lock,
                   states, upd, bounds, history>>

\* Where an open file is once the .tmp file has been renamed.
Moved(fd) == CASE fd = "tmp" -> "state" [] fd = "state" -> "gone" [] OTHER -> fd

\* Rename fails when another save has renamed the file.
RenameTmp(p) ==
    /\ saver[p].at = "written"
    /\ IF tmp = Missing
       THEN saver' = [saver EXCEPT ![p].at = "failed"] /\ UNCHANGED <<disk, tmp>>
       ELSE /\ disk' = tmp
            /\ tmp' = Missing
            /\ saver' = [q \in Threads |->
                            IF q = p THEN [saver[p] EXCEPT !.at = "done"]
                            ELSE [saver[q] EXCEPT !.fd = Moved(@)]]
    /\ UNCHANGED <<content, main, ctxDone, stopChan, loop, todo, lock,
                   states, upd, bounds, history>>

SaveState(p) == WriteTmp(p) \/ RenameTmp(p)

-----------------------------------------------------------------------------
(* updateSubscription, which holds u.mu throughout.                        *)

\* The thread gets u.mu; until then it only waits.
LockUpdate(p, u) == /\ lock = "free"
                    /\ lock' = p
                    /\ upd' = [upd EXCEPT ![p] = [NoUpdate EXCEPT !.at = "fetch", !.url = u]]

\* The state that the update starts from.
Previous(u) == IF states[u] = NoState THEN NewState ELSE states[u]

\* The update returns, and u.mu is unlocked.
Returns(p) == lock' = "free" /\ upd' = [upd EXCEPT ![p] = NoUpdate]

\* fetchSubscription returns an error; the state is stored, its flag as it was.
Fail(p) == /\ states' = [states EXCEPT ![upd[p].url] = Previous(upd[p].url)]
           /\ Returns(p)
           /\ UNCHANGED <<files, main, ctxDone, stopChan, loop, todo,
                          saver, bounds, history>>

\* Get fails; the attempts are numbered from 0 to MaxRetries.
FetchFails(p) ==
    /\ upd[p].at = "fetch"
    /\ IF upd[p].tries = MaxRetries
       THEN Fail(p)
       ELSE /\ upd' = [upd EXCEPT ![p].at = "backoff"]
            /\ UNCHANGED <<files, main, ctxDone, stopChan, loop, todo,
                           lock, states, saver, bounds, history>>

BackoffOver(p) ==
    /\ upd[p].at = "backoff"
    /\ upd' = [upd EXCEPT ![p].at = "fetch", ![p].tries = @ + 1]
    /\ UNCHANGED <<files, main, ctxDone, stopChan, loop, todo, lock,
                   states, saver, bounds, history>>

BackoffCancelled(p) == upd[p].at = "backoff" /\ ctxDone /\ Fail(p)

\* The content has the hash of the last time.
Unchanged(p) ==
    LET u == upd[p].url
    IN  /\ upd[p].at = "fetch"
        /\ Previous(u).hash \in Hashes
        /\ states' = [states EXCEPT ![u].updated = FALSE]
        /\ Returns(p)
        /\ UNCHANGED <<files, main, ctxDone, stopChan, loop, todo, saver, bounds, history>>

\* A content with another hash is stored as the state ...
Renew(p) ==
    LET u == upd[p].url
    IN  /\ upd[p].at = "fetch"
        /\ \E c \in Contents :
              /\ HashOf[c] # Previous(u).hash
              /\ states' = [states EXCEPT ![u] = [hash |-> HashOf[c], updated |-> TRUE]]
              /\ upd' = [upd EXCEPT ![p].at = "content", ![p].got = c]
        /\ UNCHANGED <<files, main, ctxDone, stopChan, loop, todo, saver, bounds, lost,
                       overlap>>

\* Mutant: u.mu is held for the map only.
ChangedAndUnlocked(p) == Renew(p) /\ lock' = "free"

\* ... under the lock ...
Changed(p) == Renew(p) /\ UNCHANGED lock

\* The other subscriptions that have the file of this one.
Sharing(u) == {v \in Urls \ {u} : FileOf[v] = FileOf[u]}

\* ... and then the content, by way of a .tmp file, unless that fails, which is only
\* logged.  It replaces whatever another URL with the same file name has there.
SaveContent(p) ==
    LET u == upd[p].url
    IN  /\ upd[p].at = "content"
        /\ \/ /\ content' = [content EXCEPT ![FileOf[u]] = upd[p].got]
              /\ lost' = (lost \ {u}) \cup Sharing(u)
           \/ UNCHANGED content /\ lost' = lost \cup {u}
        /\ Returns(p)
        /\ UNCHANGED <<disk, tmp, main, ctxDone, stopChan, loop, todo,
                       states, saver, bounds, overlap>>

UpdateStep(p) == \/ FetchFails(p) \/ BackoffOver(p) \/ BackoffCancelled(p)
                 \/ Unchanged(p) \/ Changed(p) \/ SaveContent(p)

-----------------------------------------------------------------------------
(* Start, its goroutine, and Stop.                                         *)

\* The beginning of updateAll, with the subscriptions that are enabled now; without any,
\* or when sources.json cannot be read, it returns.
BeginCycle == /\ todo' \in SUBSET Urls
              /\ loop' = IF todo' = {} THEN "select" ELSE "cycle"

\* NewUpdater loads the states, none from a file that is torn; Start makes a first
\* cycle of its own.
Launch ==
    /\ main = "down"
    /\ bounds.starts < MaxStarts
    /\ bounds' = [bounds EXCEPT !.starts = @ + 1]
    /\ main' = "start"
    /\ states' = disk.states
    /\ BeginCycle
    /\ UNCHANGED <<files, ctxDone, stopChan, lock, upd, saver, lost, overlap>>

\* The first cycle is over: Start starts the goroutine and returns.
StartReturns ==
    /\ main = "start" /\ loop = "select"
    /\ main' = "run"
    /\ UNCHANGED <<files, ctxDone, stopChan, loop, todo, lock, states,
                   upd, saver, bounds, history>>

\* The ticker ticks; its select may prefer that to a closed stopChan.
TickCycle ==
    /\ loop = "select" /\ main \in {"run", "stopping"}
    /\ Event("ticks")
    /\ BeginCycle
    /\ UNCHANGED <<files, main, ctxDone, stopChan, lock, states, upd,
                   saver, lost, overlap>>

QuitLoop ==
    /\ loop = "select" /\ main \in {"run", "stopping"}
    /\ ctxDone \/ stopChan
    /\ loop' = "left"
    /\ UNCHANGED <<files, main, ctxDone, stopChan, todo, lock, states,
                   upd, saver, bounds, history>>

InCycle == loop = "cycle" /\ upd["loop"] = NoUpdate

CycleNext(u) ==
    /\ InCycle /\ u \in todo /\ ~ctxDone
    /\ todo' = todo \ {u}
    /\ LockUpdate("loop", u)
    /\ UNCHANGED <<files, main, ctxDone, stopChan, loop, states, saver, bounds, history>>

\* ctx.Err() between the subscriptions: the cycle returns without saving.
CycleCancelled ==
    /\ InCycle /\ todo # {} /\ ctxDone
    /\ loop' = "select"
    /\ UNCHANGED <<files, main, ctxDone, stopChan, todo, lock, states,
                   upd, saver, bounds, history>>

CycleSaves ==
    /\ InCycle /\ todo = {}
    /\ loop' = "save"
    /\ BeginSave("loop", states)
    /\ UNCHANGED <<content, main, ctxDone, stopChan, todo, lock, states,
                   upd, bounds, lost>>

CycleEnds ==
    /\ loop = "save" /\ Saved("loop")
    /\ loop' = "select"
    /\ saver' = [saver EXCEPT !["loop"] = NoSave]
    /\ UNCHANGED <<files, main, ctxDone, stopChan, todo, lock, states,
                   upd, bounds, history>>

LoopStep == \/ \E u \in Urls : CycleNext(u)
            \/ CycleCancelled \/ CycleSaves \/ CycleEnds
            \/ UpdateStep("loop") \/ SaveState("loop")

\* The command calls Stop when its context is done, another owner may do so before.
CallStop ==
    /\ main = "run"
    /\ main' = "stopping"
    /\ stopChan' = TRUE
    /\ UNCHANGED <<files, ctxDone, loop, todo, lock, states, upd, saver,
                   bounds, history>>

\* Mutant: Stop does not wait for the loop.
StopSavesAtOnce ==
    /\ main = "stopping"
    /\ main' = "save"
    /\ BeginSave("main", states)
    /\ UNCHANGED <<content, ctxDone, stopChan, loop, todo, lock, states,
                   upd, bounds, lost>>

\* wg.Wait returns.
StopSaves ==
    /\ main = "stopping" /\ loop = "left"
    /\ main' = "save"
    /\ BeginSave("main", states)
    /\ UNCHANGED <<content, ctxDone, stopChan, loop, todo, lock, states,
                   upd, bounds, lost>>

\* The process is gone, with what it had not saved; whatever a .tmp file holds, the next
\* save truncates it.
Gone == /\ main' = "down" /\ ctxDone' = FALSE /\ stopChan' = FALSE
        /\ loop' = "off" /\ todo' = {} /\ lock' = "free"
        /\ states' = NoStates
        /\ upd' = [p \in {"loop", "api"} |-> NoUpdate]
        /\ saver' = [p \in Threads |-> NoSave]
        /\ lost' = lost \cup {u \in Urls : states[u].hash # disk.states[u].hash}
                        \cup {upd[p].url : p \in {q \in {"loop", "api"} : upd[q].at = "content"}}
        /\ tmp' = IF tmp = Missing THEN Missing ELSE Torn
        /\ UNCHANGED <<content, disk, bounds, overlap>>

\* Stop returns, and the command ends.
StopReturn == main = "save" /\ Saved("main") /\ Gone

\* The process dies; the runtime stops it when it notices that the map is written while
\* saveState reads it.
Crash == main # "down" /\ Gone

\* Another owner calls Stop, or Stop again, while one is under way: closing the closed
\* channel panics, wherever that one is.
StopAgain == stopChan /\ main # "down" /\ Gone

MainStep == StartReturns \/ StopSaves \/ StopReturn \/ SaveState("main")

-----------------------------------------------------------------------------
(* The other goroutine, one call after another.                            *)

CallApi == /\ main # "down"
           /\ upd["api"] = NoUpdate /\ saver["api"] = NoSave
           /\ Event("calls")

\* UpdateSubscriptionNow, of any listed subscription, enabled or not; it saves no state.
UpdateSubscriptionNow(u) ==
    /\ CallApi
    /\ LockUpdate("api", u)
    /\ UNCHANGED <<files, main, ctxDone, stopChan, loop, todo, states, saver, history>>

\* AddSubscription of an unknown one, and RemoveSubscription; they save under u.mu.
AddOrRemove(u) ==
    /\ CallApi
    /\ lock = "free"
    /\ lock' = "api"
    /\ \/ states[u] = NoState /\ states' = [states EXCEPT ![u] = NewState]
       \/ states' = [states EXCEPT ![u] = NoState]
    /\ BeginSave("api", states')
    /\ UNCHANGED <<content, main, ctxDone, stopChan, loop, todo, upd, lost>>

AddOrRemoveReturns ==
    /\ Saved("api")
    /\ lock' = "free"
    /\ saver' = [saver EXCEPT !["api"] = NoSave]
    /\ UNCHANGED <<files, main, ctxDone, stopChan, loop, todo, states,
                   upd, bounds, history>>

ResetUpdatedFlags ==
    /\ CallApi
    /\ lock = "free"
    /\ states' = [u \in Urls |-> [states[u] EXCEPT !.updated = FALSE]]
    /\ UNCHANGED <<files, main, ctxDone, stopChan, loop, todo, lock, upd,
                   saver, history>>

ApiStep == UpdateStep("api") \/ SaveState("api") \/ AddOrRemoveReturns

-----------------------------------------------------------------------------
(* What goes on around the process.                                        *)

EndContext == /\ main # "down" /\ ~ctxDone
              /\ ctxDone' = TRUE
              /\ UNCHANGED <<files, main, stopChan, loop, todo, lock,
                             states, upd, saver, bounds, history>>

Next == \/ Launch \/ TickCycle \/ QuitLoop \/ LoopStep \/ CallStop \/ StopAgain \/ MainStep
        \/ Crash \/ ResetUpdatedFlags \/ ApiStep \/ EndContext
        \/ \E u \in Urls : UpdateSubscriptionNow(u) \/ AddOrRemove(u)

Spec == Init /\ [][Next]_vars

-----------------------------------------------------------------------------
(* Properties.                                                             *)

\* The ranges of the variables.
States == [Urls -> [hash : Hashes \cup {"none", "absent"}, updated : BOOLEAN]]
StateFiles == [is : {"missing", "torn", "states"}, states : States]

TypeOK ==
    /\ content \in [Files -> Contents \cup {"none"}]
    /\ {disk, tmp} \subseteq StateFiles
    /\ main \in {"down", "start", "run", "stopping", "save"}
    /\ {ctxDone, stopChan, overlap} \subseteq BOOLEAN
    /\ loop \in {"off", "select", "cycle", "save", "left"}
    /\ {todo, lost} \subseteq SUBSET Urls
    /\ lock \in {"free", "loop", "api"}
    /\ states \in States
    /\ upd \in [{"loop", "api"} ->
                  [at : {"none", "fetch", "backoff", "content"},
                   url : Urls \cup {"none"}, tries : 0 .. MaxRetries,
                   got : Contents \cup {"none"}]]
    /\ saver \in [Threads ->
                  [at : {"none", "opened", "written", "done", "failed"},
                   snap : States, fd : {"none", "tmp", "state", "gone"}]]
    /\ bounds \in [ticks : 0 .. MaxEvents, calls : 0 .. MaxEvents,
                   starts : 0 .. MaxStarts]

Replacing(u) == \E p \in {"loop", "api"} : upd[p].at = "content" /\ upd[p].url = u

\* The file of a subscription holds a content with the hash that its state tells, but
\* for three cases: its last save failed (updater.go:318 stores the hash first), a
\* process ended between the two or without saving the states, or a subscription whose
\* URL is cut or changed to the same file name (updater.go:493) has written it since.
ContentFollowsHash ==
    main # "down" =>
        \A u \in Urls : /\ states[u].hash \in Hashes
                        /\ u \notin lost /\ ~Replacing(u)
            => /\ content[FileOf[u]] # "none"
               /\ HashOf[content[FileOf[u]]] = states[u].hash

\* A crash at any step leaves the states of some save, unless two saves overlapped,
\* which they can because those of the loop take no lock.
TornByOverlapOnly == disk.is = "torn" => overlap

\* Stop waits for the loop before it saves: when it has saved, and nobody else calls the
\* updater, what the loop has learned is in the file.
StopKeepsStates ==
    [][main = "save" /\ main' = "down" /\ saver["main"].at = "done" /\ bounds.calls = 0
         => disk.is = "states" /\ disk.states = states]_vars
=============================================================================
