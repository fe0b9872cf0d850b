----------------------------- MODULE FetchClient -----------------------------
(***************************************************************************)
(* internal/fetch: Get with its retries, called by several goroutines that *)
(* share a Limiter, which may be closed under them.                        *)
(*                                                                         *)
(* A request ends in one of Answers: a page, HTTP 404, a status or a body  *)
(* that is not worth a retry (refused), a status that is (busy: 429, 5xx,  *)
(* 3xx), a transport error (broken), or the error of a context that is     *)
(* done.  The ticker of a limiter holds one tick and drops those that find *)
(* it full.                                                                *)
(***************************************************************************)
EXTENDS Integers, FiniteSets

CONSTANTS Callers,  \* the goroutines that call Get
          Limited,  \* those that pass the limiter, the others pass nil
          Retries,  \* Config.Retries
          MaxGets   \* bound on the calls of Get

\* NewClient refuses a negative number of retries.
ASSUME ClientAssumption ==
    /\ IsFiniteSet(Callers)
    /\ Limited \subseteq Callers
    /\ Retries \in Nat
    /\ MaxGets \in Nat

Retryable == {"busy", "broken", "cancelled"}
Final     == {"page", "notFound", "refused"}
Answers   == Retryable \cup Final

VARIABLES
    get,       \* where the Get of a caller is, or "idle"
    attempt,   \* the loop variable
    answer,    \* the end of the last request, lastErr when it is no page
    returned,  \* what the caller's last Get returned, or "none"
    ctxEnded,  \* the callers whose context is done
    tick,      \* a tick is in the ticker's channel
    closed,    \* the limiter is closed
    gets,      \* calls of Get so far
    requests,  \* history: the requests each caller has sent
    granted    \* history: the tokens each caller has got

getVars == <<get, attempt, answer, returned, ctxEnded, tick, closed, gets, requests, granted>>

ClientInit == /\ get = [c \in Callers |-> "idle"]
              /\ attempt = [c \in Callers |-> 0]
              /\ answer = [c \in Callers |-> "none"]
              /\ returned = [c \in Callers |-> "none"]
              /\ ctxEnded = {}
              /\ tick = FALSE
              /\ closed = FALSE
              /\ gets = 0
              /\ requests = [c \in Callers |-> 0]
              /\ granted = [c \in Callers |-> 0]

-----------------------------------------------------------------------------
\* The caller's Get returns.
EndGet(c, with) == /\ get' = [get EXCEPT ![c] = "idle"]
                   /\ returned' = [returned EXCEPT ![c] = with]

\* Get is called; without a limiter it goes straight to its first request.
CallGet(c) ==
    /\ get[c] = "idle" /\ gets < MaxGets
    /\ get' = [get EXCEPT ![c] = IF c \in Limited THEN "token" ELSE "send"]
    /\ attempt' = [attempt EXCEPT ![c] = 0]
    /\ answer' = [answer EXCEPT ![c] = "none"]
    /\ returned' = [returned EXCEPT ![c] = "none"]
    /\ gets' = gets + 1
    /\ UNCHANGED <<ctxEnded, tick, closed, requests, granted>>

\* Limiter.Wait receives a tick ...
TakeToken(c) ==
    /\ get[c] = "token" /\ tick
    /\ tick' = FALSE
    /\ granted' = [granted EXCEPT ![c] = @ + 1]
    /\ get' = [get EXCEPT ![c] = "send"]
    /\ UNCHANGED <<attempt, answer, returned, ctxEnded, closed, gets, requests>>

\* Mutant: the wait ends with a tick only.
WaitForTick(c) == get[c] = "token" /\ FALSE /\ UNCHANGED getVars

\* ... or the end of the context; when both are there, select picks either.
WaitCancelled(c) ==
    /\ get[c] = "token" /\ c \in ctxEnded
    /\ EndGet(c, "ctx")
    /\ UNCHANGED <<attempt, answer, ctxEnded, tick, closed, gets, requests, granted>>

\* getOnce; the transport sends nothing for a context that is done.
Send(c) ==
    /\ get[c] = "send"
    /\ get' = [get EXCEPT ![c] = "request"]
    /\ requests' = IF c \in ctxEnded THEN requests ELSE [requests EXCEPT ![c] = @ + 1]
    /\ answer' = [answer EXCEPT ![c] = IF c \in ctxEnded THEN "cancelled" ELSE "none"]
    /\ UNCHANGED <<attempt, returned, ctxEnded, tick, closed, gets, granted>>

\* The end of the request: what it was refused with, or any answer; a request under
\* way may be cut off when the context ends.
AnswersTo(c) ==
    CASE answer[c] = "cancelled" -> {"cancelled"}
      [] c \in ctxEnded          -> Answers
      [] OTHER                   -> Answers \ {"cancelled"}

\* Mutant: every failure is retried.
GivesUpLast(a, n) == n = Retries

\* The condition to leave the loop after a failure.
GivesUp(a, n) == a \notin Retryable \/ n = Retries

\* The request ends; Get returns, or waits for its next attempt.
Answer(c) ==
    /\ get[c] = "request"
    /\ \E a \in AnswersTo(c) :
          /\ answer' = [answer EXCEPT ![c] = a]
          /\ IF a = "page" \/ GivesUp(a, attempt[c])
             THEN EndGet(c, a)
             ELSE get' = [get EXCEPT ![c] = "backoff"] /\ UNCHANGED returned
    /\ UNCHANGED <<attempt, ctxEnded, tick, closed, gets, requests, granted>>

\* The delay is over, though the context may be done as well.
NextAttempt(c) ==
    /\ get[c] = "backoff"
    /\ attempt' = [attempt EXCEPT ![c] = @ + 1]
    /\ get' = [get EXCEPT ![c] = "send"]
    /\ UNCHANGED <<answer, returned, ctxEnded, tick, closed, gets, requests, granted>>

\* The context ends during the delay.
BackoffCancelled(c) ==
    /\ get[c] = "backoff" /\ c \in ctxEnded
    /\ EndGet(c, "ctx")
    /\ UNCHANGED <<attempt, answer, ctxEnded, tick, closed, gets, requests, granted>>

GetStep(c) == \/ TakeToken(c) \/ WaitCancelled(c) \/ Send(c) \/ Answer(c)
              \/ NextAttempt(c) \/ BackoffCancelled(c)

-----------------------------------------------------------------------------
\* The ticker puts a tick where there is none.
Tick == /\ ~closed /\ ~tick
        /\ tick' = TRUE
        /\ UNCHANGED <<get, attempt, answer, returned, ctxEnded, closed, gets, requests, granted>>

\* Limiter.Close; a tick in the channel stays there.
Close == /\ ~closed
         /\ closed' = TRUE
         /\ UNCHANGED <<get, attempt, answer, returned, ctxEnded, tick, gets, requests, granted>>

\* Whoever owns the context of a caller.
EndContext(c) ==
    /\ c \notin ctxEnded
    /\ ctxEnded' = ctxEnded \cup {c}
    /\ UNCHANGED <<get, attempt, answer, returned, tick, closed, gets, requests, granted>>

ClientNext == \/ Tick \/ Close
              \/ \E c \in Callers : CallGet(c) \/ GetStep(c) \/ EndContext(c)

ClientSpec == ClientInit /\ [][ClientNext]_getVars

\* Requests end, because the HTTP client has a timeout; delays are over at some
\* time; an open limiter ticks.  Nobody has to call, to close or to cancel.
ClientFairness == WF_getVars(Tick) /\ \A c \in Callers : WF_getVars(GetStep(c))

ClientFairSpec == ClientSpec /\ ClientFairness

-----------------------------------------------------------------------------
(* Properties.                                                             *)

\* The ranges of the variables.
ClientTypeOK ==
    /\ get \in [Callers -> {"idle", "token", "send", "request", "backoff"}]
    /\ attempt \in [Callers -> 0 .. Retries]
    /\ answer \in [Callers -> Answers \cup {"none"}]
    /\ returned \in [Callers -> Answers \cup {"none", "ctx"}]
    /\ ctxEnded \subseteq Callers
    /\ tick \in BOOLEAN
    /\ closed \in BOOLEAN
    /\ gets \in 0 .. MaxGets
    /\ requests \in [Callers -> Nat]
    /\ granted \in [Callers -> Nat]

\* The rate the limiter allows bounds the requests only up to the attempts of a Get:
\* its retries use the token of its first attempt.
RequestsPerToken ==
    \A c \in Limited : requests[c] <= (Retries + 1) * granted[c]

\* What Get returns is what happened last: an answer that is not worth a retry is
\* never replaced by a later error, one that is comes back only after every attempt,
\* and the context is blamed only when it is done.
LastAnswerReturned ==
    \A c \in Callers : get[c] = "idle" /\ returned[c] # "none" =>
        /\ answer[c] \in Final => returned[c] = answer[c]
        /\ returned[c] \in Answers => returned[c] = answer[c]
        /\ returned[c] \in Retryable => attempt[c] = Retries
        /\ returned[c] = "ctx" => c \in ctxEnded

\* A Get returns unless it waits for a token of a closed limiter with a context that
\* does not end.
GetReturns ==
    \A c \in Callers : get[c] # "idle" ~> get[c] = "idle" \/ (closed /\ c \notin ctxEnded)
-----------------------------------------------------------------------------
(* An inductive invariant, which implies the safety properties.            *)

\* The requests that the token of a Get under way still pays for.
Unsent(c) == CASE get[c] = "send"                -> Retries + 1 - attempt[c]
               [] get[c] \in {"request", "backoff"} -> Retries - attempt[c]
               [] OTHER                          -> 0

Paid(tokens) == (Retries + 1) * tokens

\* What the goroutine of a caller knows where it is.
GetIsOrdered ==
    \A c \in Callers :
        /\ get[c] = "token" => attempt[c] = 0 /\ answer[c] = "none"
        /\ get[c] = "backoff" => attempt[c] < Retries /\ answer[c] \in Retryable
        /\ answer[c] = "cancelled" => c \in ctxEnded

ClientInv ==
    /\ ClientTypeOK
    /\ GetIsOrdered
    /\ \A c \in Limited : requests[c] + Unsent(c) <= Paid(granted[c])
    /\ LastAnswerReturned
=============================================================================
