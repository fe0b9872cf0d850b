-------------------------- MODULE HealthScanProofs --------------------------
(***************************************************************************)
(* What holds of Get and its limiter for every number of goroutines and    *)
(* retries, and, from that, of the records of channels and sources for     *)
(* every list and every DormantAfterDays.                                  *)
(***************************************************************************)
EXTENDS HealthScan, FiniteSetTheorems, TLAPS

-----------------------------------------------------------------------------
(* The client of FetchClient, which HealthScan extends.                    *)

\* A token pays for Retries + 1 requests.
LEMMA TokenPays ==
    ASSUME NEW n \in Nat
    PROVE  /\ Paid(n) \in Nat
           /\ Paid(n + 1) = Paid(n) + Retries + 1
           /\ Paid(0) = 0
  <1>1. Retries \in Nat
    BY ClientAssumption
  <1>2. /\ (Retries + 1) * n \in Nat
        /\ (Retries + 1) * (n + 1) = (Retries + 1) * n + Retries + 1
        /\ (Retries + 1) * 0 = 0
    BY <1>1
  <1> QED
    BY <1>2 DEF Paid

\* The part of the invariant that is about the tokens.
TokensSuffice == \A c \in Limited : requests[c] + Unsent(c) <= Paid(granted[c])

\* The invariant holds initially.
LEMMA ClientInitInv == ClientInit => ClientInv
  <1> SUFFICES ASSUME ClientInit PROVE ClientInv
    OBVIOUS
  <1>1. ClientTypeOK
    <2>1. /\ get \in [Callers -> {"idle", "token", "send", "request", "backoff"}]
          /\ attempt \in [Callers -> 0 .. Retries]
          /\ gets \in 0 .. MaxGets
      BY ClientAssumption DEF ClientInit
    <2>2. /\ answer \in [Callers -> Answers \cup {"none"}]
          /\ returned \in [Callers -> Answers \cup {"none", "ctx"}]
      BY DEF ClientInit
    <2>3. requests \in [Callers -> Nat] /\ granted \in [Callers -> Nat]
      BY DEF ClientInit
    <2> QED
      BY <2>1, <2>2, <2>3 DEF ClientInit, ClientTypeOK
  <1>2. GetIsOrdered /\ LastAnswerReturned
    BY DEF ClientInit, GetIsOrdered, LastAnswerReturned
  <1>3. \A c \in Limited : requests[c] + Unsent(c) <= Paid(granted[c])
    BY ClientAssumption, TokenPays DEF ClientInit, Unsent
  <1> QED
    BY <1>1, <1>2, <1>3 DEF ClientInv

-----------------------------------------------------------------------------
\* Calling Get keeps the invariant.
LEMMA CallGetInv == ASSUME ClientInv, NEW c \in Callers, CallGet(c) PROVE ClientInv'
  <1> USE ClientAssumption DEF ClientInv
  <1>1. ClientTypeOK'
    BY DEF CallGet, ClientTypeOK
  <1>2. GetIsOrdered' /\ LastAnswerReturned'
    BY DEF CallGet, ClientTypeOK, GetIsOrdered, LastAnswerReturned
  <1>3. TokensSuffice'
    <2> SUFFICES ASSUME NEW d \in Limited
                 PROVE  requests'[d] + Unsent(d)' <= Paid(granted'[d])
      BY DEF TokensSuffice
    <2>1. Unsent(d)' = Unsent(d)
      BY DEF CallGet, ClientTypeOK, Unsent
    <2> QED
      BY <2>1 DEF CallGet
  <1> QED
    BY <1>1, <1>2, <1>3 DEF TokensSuffice

\* So do the ends of the wait for a token, ...
LEMMA TakeTokenInv == ASSUME ClientInv, NEW c \in Callers, TakeToken(c) PROVE ClientInv'
  <1> USE ClientAssumption DEF ClientInv
  <1>1. ClientTypeOK'
    <2>1. granted' \in [Callers -> Nat]
      BY DEF TakeToken, ClientTypeOK
    <2>2. get' \in [Callers -> {"idle", "token", "send", "request", "backoff"}]
      BY DEF TakeToken, ClientTypeOK
    <2> QED
      BY <2>1, <2>2 DEF TakeToken, ClientTypeOK
  <1>2. GetIsOrdered' /\ LastAnswerReturned'
    BY DEF TakeToken, ClientTypeOK, GetIsOrdered, LastAnswerReturned
  <1>3. TokensSuffice'
    <2> SUFFICES ASSUME NEW d \in Limited
                 PROVE  requests'[d] + Unsent(d)' <= Paid(granted'[d])
      BY DEF TokensSuffice
    <2>1. requests[d] \in Nat /\ granted[d] \in Nat /\ requests[d] + Unsent(d) <= Paid(granted[d])
      BY DEF ClientTypeOK
    <2>2. CASE d = c
      <3>1. Unsent(d) = 0 /\ Unsent(d)' = Retries + 1
        BY <2>2 DEF TakeToken, ClientTypeOK, GetIsOrdered, Unsent
      <3>2. granted'[d] = granted[d] + 1 /\ requests'[d] = requests[d]
        BY <2>2 DEF TakeToken, ClientTypeOK
      <3> QED
        BY <2>1, <3>1, <3>2, TokenPays
    <2>3. CASE d # c
      <3>1. Unsent(d)' = Unsent(d) /\ granted'[d] = granted[d] /\ requests'[d] = requests[d]
        BY <2>3 DEF TakeToken, ClientTypeOK, Unsent
      <3> QED
        BY <2>1, <3>1
    <2> QED
      BY <2>2, <2>3
  <1> QED
    BY <1>1, <1>2, <1>3 DEF TokensSuffice

\* ... a request ...
LEMMA SendInv == ASSUME ClientInv, NEW c \in Callers, Send(c) PROVE ClientInv'
  <1> USE ClientAssumption DEF ClientInv
  <1>1. ClientTypeOK'
    BY DEF Send, ClientTypeOK, Answers, Retryable
  <1>2. GetIsOrdered' /\ LastAnswerReturned'
    BY DEF Send, ClientTypeOK, GetIsOrdered, LastAnswerReturned
  <1>3. TokensSuffice'
    <2> SUFFICES ASSUME NEW d \in Limited
                 PROVE  requests'[d] + Unsent(d)' <= Paid(granted'[d])
      BY DEF TokensSuffice
    <2>1. /\ requests[d] \in Nat /\ granted[d] \in Nat /\ attempt[d] \in 0 .. Retries
          /\ requests[d] + Unsent(d) <= Paid(granted[d])
      BY DEF ClientTypeOK
    <2>2. CASE d = c
      <3>1. Unsent(d) = Retries + 1 - attempt[d] /\ Unsent(d)' = Retries - attempt[d]
        BY <2>2 DEF Send, ClientTypeOK, Unsent
      <3>2. granted'[d] = granted[d] /\ requests'[d] \in {requests[d], requests[d] + 1}
        BY <2>2 DEF Send, ClientTypeOK
      <3> QED
        BY <2>1, <3>1, <3>2, TokenPays
    <2>3. CASE d # c
      <3>1. Unsent(d)' = Unsent(d) /\ granted'[d] = granted[d] /\ requests'[d] = requests[d]
        BY <2>3 DEF Send, ClientTypeOK, Unsent
      <3> QED
        BY <2>1, <3>1
    <2> QED
      BY <2>2, <2>3
  <1> QED
    BY <1>1, <1>2, <1>3 DEF TokensSuffice

-----------------------------------------------------------------------------
\* A goroutine whose token pays for no more than before, and that sends nothing.
LEMMA TokensStay ==
    ASSUME ClientInv, NEW c \in Callers,
           UNCHANGED <<requests, granted>>,
           Unsent(c)' <= Unsent(c), Unsent(c)' \in Nat, Unsent(c) \in Nat,
           \A d \in Callers \ {c} : get'[d] = get[d] /\ attempt'[d] = attempt[d]
    PROVE  TokensSuffice'
  <1> SUFFICES ASSUME NEW d \in Limited
               PROVE  requests'[d] + Unsent(d)' <= Paid(granted'[d])
    BY DEF TokensSuffice
  <1>1. /\ d \in Callers
        /\ requests[d] \in Nat /\ Paid(granted[d]) \in Nat
        /\ requests[d] + Unsent(d) <= Paid(granted[d])
    BY ClientAssumption, TokenPays DEF ClientInv, ClientTypeOK
  <1>2. CASE d = c
    BY <1>1, <1>2
  <1>3. CASE d # c
    <2>1. Unsent(d)' = Unsent(d)
      BY <1>1, <1>3 DEF Unsent
    <2> QED
      BY <1>1, <2>1
  <1> QED
    BY <1>2, <1>3

\* A Get that returns the end of the context, because of it, keeps the invariant ...
LEMMA BlamesContext ==
    ASSUME ClientInv, NEW c \in Callers, c \in ctxEnded, get[c] \in {"token", "backoff"},
           EndGet(c, "ctx"),
           UNCHANGED <<attempt, answer, ctxEnded, tick, closed, gets, requests, granted>>
    PROVE  ClientInv'
  <1> USE ClientAssumption DEF ClientInv
  <1>1. ClientTypeOK'
    BY DEF EndGet, ClientTypeOK
  <1>2. answer[c] \notin Final
    BY DEF GetIsOrdered, Final, Retryable
  <1>3. GetIsOrdered' /\ LastAnswerReturned'
    BY <1>2 DEF EndGet, ClientTypeOK, GetIsOrdered, LastAnswerReturned, Answers, Final, Retryable
  <1>4. TokensSuffice'
    <2>1. Unsent(c)' = 0 /\ Unsent(c) \in Nat
      BY DEF EndGet, ClientTypeOK, GetIsOrdered, Unsent
    <2> QED
      BY <2>1, TokensStay DEF EndGet, ClientTypeOK
  <1> QED
    BY <1>1, <1>3, <1>4 DEF TokensSuffice

\* ... and so does the end of a request.
LEMMA AnswerInv == ASSUME ClientInv, NEW c \in Callers, Answer(c) PROVE ClientInv'
  <1> USE ClientAssumption DEF ClientInv
  <1> PICK a \in AnswersTo(c) :
        /\ answer' = [answer EXCEPT ![c] = a]
        /\ IF a = "page" \/ GivesUp(a, attempt[c])
           THEN EndGet(c, a)
           ELSE get' = [get EXCEPT ![c] = "backoff"] /\ UNCHANGED returned
    BY DEF Answer
  <1>1. a \in Answers
    BY DEF AnswersTo, Answers, Retryable
  <1>2. get[c] = "request" /\ attempt[c] \in 0 .. Retries /\ Retries \in Nat
    BY DEF Answer, ClientTypeOK
  <1>3. \/ EndGet(c, a) /\ (a \in Retryable => attempt[c] = Retries)
        \/ /\ get' = [get EXCEPT ![c] = "backoff"] /\ UNCHANGED returned
           /\ a \in Retryable /\ attempt[c] < Retries
    BY <1>2 DEF GivesUp, Retryable
  <1>4. ClientTypeOK'
    BY <1>1, <1>3 DEF Answer, EndGet, ClientTypeOK
  <1>5. GetIsOrdered'
    <2>1. a = "cancelled" => c \in ctxEnded
      BY DEF AnswersTo, GetIsOrdered
    <2> QED
      BY <1>3, <2>1 DEF Answer, EndGet, ClientTypeOK, GetIsOrdered
  <1>6. LastAnswerReturned'
    BY <1>1, <1>3 DEF Answer, EndGet, ClientTypeOK, LastAnswerReturned, Answers, Final, Retryable
  <1>7. TokensSuffice'
    <2>1. Unsent(c) = Retries - attempt[c] /\ Unsent(c)' \in {0, Retries - attempt[c]}
      BY <1>2, <1>3 DEF Answer, EndGet, ClientTypeOK, Unsent
    <2>2. \A d \in Callers \ {c} : get'[d] = get[d] /\ attempt'[d] = attempt[d]
      BY <1>3 DEF Answer, EndGet, ClientTypeOK
    <2> QED
      BY <1>2, <2>1, <2>2, TokensStay DEF Answer
  <1> QED
    BY <1>4, <1>5, <1>6, <1>7 DEF TokensSuffice

\* The next attempt keeps the invariant.
LEMMA NextAttemptInv == ASSUME ClientInv, NEW c \in Callers, NextAttempt(c) PROVE ClientInv'
  <1> USE ClientAssumption DEF ClientInv
  <1>1. get[c] = "backoff" /\ attempt[c] \in 0 .. Retries /\ attempt[c] < Retries
    BY DEF NextAttempt, ClientTypeOK, GetIsOrdered
  <1>2. ClientTypeOK'
    BY <1>1 DEF NextAttempt, ClientTypeOK
  <1>3. GetIsOrdered' /\ LastAnswerReturned'
    BY DEF NextAttempt, ClientTypeOK, GetIsOrdered, LastAnswerReturned
  <1>4. TokensSuffice'
    <2>1. Unsent(c) = Retries - attempt[c] /\ Unsent(c)' = Retries - attempt[c]
      BY <1>1 DEF NextAttempt, ClientTypeOK, Unsent
    <2> QED
      BY <1>1, <2>1, TokensStay DEF NextAttempt, ClientTypeOK
  <1> QED
    BY <1>2, <1>3, <1>4 DEF TokensSuffice

-----------------------------------------------------------------------------
\* The invariant is inductive.
LEMMA ClientNextInv == ClientInv /\ [ClientNext]_getVars => ClientInv'
  <1> SUFFICES ASSUME ClientInv, [ClientNext]_getVars PROVE ClientInv'
    OBVIOUS
  <1>1. CASE UNCHANGED <<get, attempt, answer, returned, gets, requests, granted>>
             /\ ctxEnded \subseteq ctxEnded' /\ ctxEnded' \subseteq Callers
             /\ {tick', closed'} \subseteq BOOLEAN
    BY <1>1 DEF ClientInv, ClientTypeOK, GetIsOrdered, Unsent, LastAnswerReturned
  <1>2. CASE UNCHANGED getVars
    BY <1>1, <1>2 DEF getVars, ClientInv, ClientTypeOK
  <1>3. CASE Tick \/ Close
    BY <1>1, <1>3 DEF Tick, Close, ClientInv, ClientTypeOK
  <1>4. ASSUME NEW c \in Callers, CallGet(c) \/ GetStep(c) \/ EndContext(c)
        PROVE  ClientInv'
    <2>1. CASE EndContext(c)
      BY <1>1, <2>1 DEF EndContext, ClientInv, ClientTypeOK
    <2>2. CASE CallGet(c)
      BY <2>2, CallGetInv
    <2>3. CASE TakeToken(c)
      BY <2>3, TakeTokenInv
    <2>4. CASE WaitCancelled(c) \/ BackoffCancelled(c)
      BY <2>4, BlamesContext DEF WaitCancelled, BackoffCancelled
    <2>5. CASE Send(c)
      BY <2>5, SendInv
    <2>6. CASE Answer(c)
      BY <2>6, AnswerInv
    <2>7. CASE NextAttempt(c)
      BY <2>7, NextAttemptInv
    <2> QED
      BY <1>4, <2>1, <2>2, <2>3, <2>4, <2>5, <2>6, <2>7 DEF GetStep
  <1> QED
    BY <1>2, <1>3, <1>4 DEF ClientNext

\* The reachable states satisfy the inductive invariant.
THEOREM ClientInvariant == ClientSpec => []ClientInv
  BY ClientInitInv, ClientNextInv, PTL DEF ClientSpec

\* A limited goroutine sends at most Retries + 1 requests for a token, whatever the
\* others do and whenever contexts end.
THEOREM ClientRequests == ClientSpec => []RequestsPerToken
  <1>1. ClientInv => RequestsPerToken
    <2> SUFFICES ASSUME ClientInv, NEW c \in Limited
                 PROVE  requests[c] <= Paid(granted[c])
      BY DEF RequestsPerToken, Paid
    <2>1. /\ requests[c] \in Nat /\ Paid(granted[c]) \in Nat
          /\ requests[c] + Unsent(c) <= Paid(granted[c])
          /\ attempt[c] \in 0 .. Retries /\ Retries \in Nat
      BY ClientAssumption, TokenPays DEF ClientInv, ClientTypeOK
    <2>2. Unsent(c) \in Nat
      BY <2>1 DEF Unsent
    <2> QED
      BY <2>1, <2>2
  <1> QED
    BY <1>1, ClientInvariant, PTL

\* Get returns the end of its last request, or blames a context that is done.
THEOREM ClientAnswers == ClientSpec => []LastAnswerReturned
  BY ClientInvariant, PTL DEF ClientInv

-----------------------------------------------------------------------------
(* The scans.                                                              *)

\* The history of a target.
Histories == [success : Times, checked : Times, fails : Nat, dormant : Times]

\* What the file and the history of a target have to do with each other.
Agree(r, h) ==
    /\ r.success = h.success
    /\ r.failures = h.fails
    /\ r.status # "dormant" => r.checked = h.checked
    /\ h.success # Never => h.checked # Never
    /\ h.dormant # Never <=> r.status = "dormant"
    /\ r.status = "dormant" =>
          /\ h.dormant # Never
          /\ h.checked # Never
          /\ h.checked < h.dormant
          /\ IF h.success # Never THEN h.success < h.dormant - DormantAfter
                                  ELSE h.checked < h.dormant - DormantAfter

\* The parts of the invariant that are about the files, target by target.
LEMMA AgreeIsInv ==
    RecordsTellWhatWasSaved /\ DormancyIsEarned /\ HistoryIsSound
        <=> \A t \in Targets : Agree(file[t], saved[t])
  BY DEF RecordsTellWhatWasSaved, DormancyIsEarned, HistoryIsSound, Agree

\* The lists are of targets.
LEMMA ListedType == \A m : Listed(m) \subseteq Targets
  BY DEF Listed, Targets

\* The times are numbers.
LEMMA TimesType == Times \subseteq Nat /\ Never = 0 /\ DormantAfter \in Nat \ {0}
  BY HealthAssumption DEF Times, Never

\* A record with a status and a time set is a record.
LEMMA RecordTypes ==
    ASSUME NEW r \in Records, NEW n \in Times, NEW s \in Statuses
    PROVE  Dormant(r, n) \in Records /\ Updated(r, s, n) \in Records
  <1>1. Dormant(r, n) \in Records
    BY DEF Dormant, Records, Statuses
  <1>2. Updated(r, s, n) \in Records
    BY DEF Updated, Records
  <1> QED
    BY <1>1, <1>2

\* The times of a state of the right type are numbers.
LEMMA TimeTypes ==
    ASSUME HealthTypeOK
    PROVE  /\ now \in Nat /\ clock \in Nat /\ clock > 0
           /\ \A t \in Targets : saved[t] \in Histories /\ saved[t].checked \in Nat
  <1>1. now \in Nat
    BY TimesType DEF HealthTypeOK
  <1>2. clock \in Nat /\ clock > 0
    BY HealthAssumption DEF HealthTypeOK
  <1>3. ASSUME NEW t \in Targets PROVE saved[t] \in Histories /\ saved[t].checked \in Nat
    <2>1. saved[t] \in Histories
      BY DEF HealthTypeOK, Histories
    <2> QED
      BY <2>1, TimesType DEF Histories
  <1> QED
    BY <1>1, <1>2, <1>3

\* The invariant holds initially.
LEMMA HealthInitInv == HealthInit => HealthInv
  <1> SUFFICES ASSUME HealthInit PROVE HealthInv
    OBVIOUS
  <1>1. ClientInv
    BY ClientInitInv DEF HealthInit
  <1>2. NoRecord \in Records
    BY TimesType, HealthAssumption DEF NoRecord, Records, Times, Never
  <1>3. HealthTypeOK
    <2>1. clock \in 1 .. MaxClock /\ now \in Times
      BY HealthAssumption DEF HealthInit, Times, Never
    <2>2. file \in [Targets -> Records] /\ store \in [Targets -> Records]
      BY <1>2 DEF HealthInit
    <2>3. saved \in [Targets -> [success : Times, checked : Times, fails : Nat, dormant : Times]]
      BY HealthAssumption DEF HealthInit, Times, Never
    <2>4. outcome \in [Targets -> Statuses \cup {"none", "cut"}]
      BY DEF HealthInit, Nothing
    <2> QED
      BY <1>1, <2>1, <2>2, <2>3, <2>4 DEF HealthInit, HealthTypeOK, ClientInv
  <1>4. TimeIsOrdered
    BY DEF HealthInit, TimeIsOrdered, Never
  <1>5. ScanIsOrdered
    <2>1. get[Scan] = "idle"
      BY HealthAssumption DEF HealthInit, ClientInit
    <2>2. \A t \in Targets : TargetIsOrdered(t)
      BY DEF HealthInit, TargetIsOrdered, Made, Nothing
    <2> QED
      BY <2>1, <2>2 DEF HealthInit, ScanIsOrdered
  <1>6. \A t \in Targets : Agree(file[t], saved[t])
    BY DEF HealthInit, Agree, NoRecord, Never
  <1> QED
    BY <1>1, <1>3, <1>4, <1>5, <1>6, AgreeIsInv DEF HealthInv

-----------------------------------------------------------------------------
\* A step that leaves the files and the times alone leaves what is said of them.
LEMMA FilesKept ==
    ASSUME HealthInv, UNCHANGED <<file, saved>>
    PROVE  RecordsTellWhatWasSaved' /\ DormancyIsEarned' /\ HistoryIsSound'
  BY DEF HealthInv, RecordsTellWhatWasSaved, DormancyIsEarned, HistoryIsSound

\* What the steps of a scan change of a target depends on its outcome only.
LEMMA TargetKept ==
    ASSUME HealthInv, NEW t \in Targets,
           UNCHANGED <<file, enabled, mode, now, phase, current>>,
           ctxEnded \subseteq ctxEnded',
           store'[t] = store[t], outcome'[t] = outcome[t], t \in todo <=> t \in todo'
    PROVE  TargetIsOrdered(t)'
  BY DEF HealthInv, ScanIsOrdered, TargetIsOrdered, Made, Checkable

\* Time goes on.
LEMMA LaterInv == HealthInv /\ Later => HealthInv'
  <1> SUFFICES ASSUME HealthInv, Later PROVE HealthInv'
    OBVIOUS
  <1> USE DEF HealthInv
  <1>1. ClientInv'
    BY ClientNextInv DEF Later
  <1>2. HealthTypeOK'
    BY <1>1, HealthAssumption DEF Later, scanVars, HealthTypeOK, ClientInv
  <1>3. TimeIsOrdered'
    BY TimesType, HealthAssumption DEF Later, scanVars, TimeIsOrdered, HealthTypeOK
  <1>4. ScanIsOrdered'
    <2>1. \A t \in Targets : TargetIsOrdered(t)'
      BY TargetKept DEF Later, scanVars, getVars
    <2> QED
      BY <2>1 DEF Later, scanVars, getVars, ScanIsOrdered
  <1> QED
    BY <1>1, <1>2, <1>3, <1>4, FilesKept DEF Later

\* The lists are edited.
LEMMA EditInv == ASSUME HealthInv, NEW t \in Targets, Edit(t) PROVE HealthInv'
  <1> USE DEF HealthInv
  <1>1. ClientInv'
    BY ClientNextInv DEF Edit
  <1>2. HealthTypeOK'
    <2>1. enabled' \subseteq Targets /\ todo = {}
      BY DEF Edit, HealthTypeOK, ScanIsOrdered
    <2> QED
      BY <1>1, <2>1 DEF Edit, scanVars, HealthTypeOK, ClientInv
  <1>3. TimeIsOrdered'
    BY DEF Edit, scanVars, TimeIsOrdered
  <1>4. ScanIsOrdered'
    <2>1. \A u \in Targets : TargetIsOrdered(u)'
      BY DEF Edit, scanVars, getVars, ScanIsOrdered, TargetIsOrdered, Made, Nothing
    <2> QED
      BY <2>1 DEF Edit, scanVars, getVars, ScanIsOrdered
  <1> QED
    BY <1>1, <1>2, <1>3, <1>4, FilesKept DEF Edit

\* A scan begins, at a time of its own.
LEMMA BeginInv ==
    ASSUME HealthInv, NEW m \in {"channels", "revive", "sources"}, Begin(m)
    PROVE  HealthInv'
  <1> USE DEF HealthInv
  <1>1. ClientInv'
    BY ClientNextInv DEF Begin
  <1>2. HealthTypeOK'
    <2>1. clock \in Times
      BY HealthAssumption DEF HealthTypeOK, Times, Never
    <2>2. now' \in Times /\ store' \in [Targets -> Records] /\ todo' \subseteq enabled' \cap Listed(mode')
      BY <2>1 DEF Begin, HealthTypeOK
    <2>3. UNCHANGED <<clock, enabled, file, current, outcome, saved>>
      BY DEF Begin
    <2>4. phase' = "scan" /\ mode' \in {"none", "channels", "revive", "sources"}
      BY DEF Begin
    <2> QED
      BY <1>1, <2>2, <2>3, <2>4 DEF HealthTypeOK, ClientInv
  <1>3. TimeIsOrdered'
    BY TimeTypes DEF Begin, TimeIsOrdered
  <1>4. ScanIsOrdered'
    <2>1. \A t \in Targets : TargetIsOrdered(t)'
      BY DEF Begin, ScanIsOrdered, TargetIsOrdered, Made, Nothing
    <2> QED
      BY <2>1 DEF Begin, getVars, ScanIsOrdered
  <1> QED
    BY <1>1, <1>2, <1>3, <1>4, FilesKept DEF Begin

-----------------------------------------------------------------------------
\* A step that changes nothing of the health but one target's record and outcome.
\* SkipDormant and SkipHealthy come to the end of a target without a check.
LEMMA SkipDormantInv == ASSUME HealthInv, NEW t \in Targets, SkipDormant(t) PROVE HealthInv'
  <1> USE DEF HealthInv
  <1>1. ClientInv'
    BY ClientNextInv DEF SkipDormant
  <1>2. TargetIsOrdered(t) /\ outcome[t] = "none" /\ store[t] = file[t]
    BY DEF SkipDormant, ScanIsOrdered, TargetIsOrdered, Made
  <1>3. HealthTypeOK'
    <2>1. store' \in [Targets -> Records]
      BY RecordTypes DEF SkipDormant, HealthTypeOK, Statuses
    <2>2. outcome' \in [Targets -> Statuses \cup {"none", "cut"}]
      BY DEF SkipDormant, HealthTypeOK, Statuses
    <2>3. todo' \subseteq enabled' \cap Listed(mode')
      BY DEF SkipDormant, HealthTypeOK
    <2>4. UNCHANGED <<clock, enabled, file, phase, mode, now, current, saved>>
      BY DEF SkipDormant
    <2> QED
      BY <1>1, <2>1, <2>2, <2>3, <2>4 DEF HealthTypeOK, ClientInv
  <1>4. TimeIsOrdered'
    BY DEF SkipDormant, TimeIsOrdered
  <1>5. ScanIsOrdered'
    <2>1. ASSUME NEW u \in Targets PROVE TargetIsOrdered(u)'
      <3>1. CASE u = t
        <4>1. store'[t] = Dormant(file[t], now) /\ outcome'[t] = "dormant"
          BY <1>2 DEF SkipDormant, HealthTypeOK
        <4>2. ShouldDormant(file[t], now) /\ UNCHANGED <<file, now, enabled, mode, phase>>
          BY <1>2 DEF SkipDormant
        <4>3. t \in (enabled \cap Listed(mode)) /\ t \notin todo'
          BY DEF SkipDormant, HealthTypeOK
        <4> QED
          BY <3>1, <4>1, <4>2, <4>3 DEF TargetIsOrdered, Made
      <3>2. CASE u # t
        <4>1. store'[u] = store[u] /\ outcome'[u] = outcome[u] /\ (u \in todo <=> u \in todo')
          BY <3>2 DEF SkipDormant, HealthTypeOK
        <4> QED
          BY <4>1, TargetKept DEF SkipDormant, getVars
      <3> QED
        BY <3>1, <3>2
    <2> QED
      BY <2>1 DEF SkipDormant, getVars, ScanIsOrdered
  <1> QED
    BY <1>1, <1>3, <1>4, <1>5, FilesKept DEF SkipDormant

\* A revival passes over a channel that needs none.
LEMMA SkipHealthyInv == ASSUME HealthInv, NEW t \in Targets, SkipHealthy(t) PROVE HealthInv'
  <1> USE DEF HealthInv
  <1>1. ClientInv'
    BY ClientNextInv DEF SkipHealthy
  <1>2. outcome[t] = "none" /\ store[t] = file[t]
    BY DEF SkipHealthy, ScanIsOrdered, TargetIsOrdered, Made
  <1>3. HealthTypeOK'
    <2>1. todo' \subseteq enabled' \cap Listed(mode')
      BY DEF SkipHealthy, HealthTypeOK
    <2>2. UNCHANGED <<clock, enabled, file, phase, mode, now, store, current, outcome, saved>>
      BY DEF SkipHealthy
    <2> QED
      BY <1>1, <2>1, <2>2 DEF HealthTypeOK, ClientInv
  <1>4. TimeIsOrdered'
    BY DEF SkipHealthy, TimeIsOrdered
  <1>5. ScanIsOrdered'
    <2>1. ASSUME NEW u \in Targets PROVE TargetIsOrdered(u)'
      <3>1. CASE u = t
        <4>1. mode = "revive" /\ ~Revivable(file[t]) /\ ~ShouldDormant(file[t], now)
          BY <1>2 DEF SkipHealthy
        <4>2. UNCHANGED <<file, now, enabled, mode, phase, store, outcome>>
          BY DEF SkipHealthy
        <4>3. t \in (enabled \cap Listed(mode)) /\ t \notin todo'
          BY DEF SkipHealthy, HealthTypeOK
        <4> QED
          BY <1>2, <3>1, <4>1, <4>2, <4>3 DEF TargetIsOrdered, Made
      <3>2. CASE u # t
        BY <3>2, TargetKept DEF SkipHealthy, getVars
      <3> QED
        BY <3>1, <3>2
    <2> QED
      BY <2>1 DEF SkipHealthy, getVars, ScanIsOrdered
  <1> QED
    BY <1>1, <1>3, <1>4, <1>5, FilesKept DEF SkipHealthy

\* A check begins, in a context that is alive: no result has been cut.
LEMMA FetchInv == ASSUME HealthInv, NEW t \in Targets, Fetch(t) PROVE HealthInv'
  <1> USE DEF HealthInv
  <1>1. ClientInv'
    BY ClientNextInv, HealthAssumption DEF Fetch, ClientNext
  <1>2. outcome[t] = "none" /\ store[t] = file[t] /\ t \in todo
    BY DEF Fetch, ToCheck, ScanIsOrdered, TargetIsOrdered, Made
  <1>3. HealthTypeOK'
    <2>1. UNCHANGED <<clock, enabled, file, mode, now, store, todo, outcome, saved>>
      BY DEF Fetch
    <2>2. current' \in Targets /\ phase' = "fetch"
      BY DEF Fetch
    <2> QED
      BY <1>1, <2>1, <2>2 DEF HealthTypeOK, ClientInv
  <1>4. TimeIsOrdered'
    BY DEF Fetch, ToCheck, TimeIsOrdered
  <1>5. ScanIsOrdered'
    <2>1. get'[Scan] # "idle"
      BY HealthAssumption DEF Fetch, CallGet, ClientInv, ClientTypeOK
    <2>2. Checkable(t) /\ phase = "scan"
      BY <1>2 DEF Fetch, ToCheck, Checkable
    <2>3. ASSUME NEW u \in Targets PROVE TargetIsOrdered(u)'
      <3>1. TargetIsOrdered(u) /\ outcome[u] # "cut"
        BY DEF Fetch, ScanIsOrdered, TargetIsOrdered
      <3> QED
        BY <2>2, <3>1 DEF Fetch, TargetIsOrdered, Made, Checkable
    <2> QED
      BY <1>2, <2>1, <2>2, <2>3 DEF Fetch, ScanIsOrdered, Checkable
  <1> QED
    BY <1>1, <1>3, <1>4, <1>5, FilesKept DEF Fetch

\* The steps of a check change the client only; a result comes with its end.
LEMMA FetchingInv == HealthInv /\ Fetching => HealthInv'
  <1> SUFFICES ASSUME HealthInv, Fetching PROVE HealthInv'
    OBVIOUS
  <1> USE DEF HealthInv
  <1>1. ClientInv'
    BY ClientNextInv, HealthAssumption DEF Fetching, ClientNext
  <1>2. HealthTypeOK' /\ TimeIsOrdered'
    BY <1>1 DEF Fetching, healthVars, scanVars, HealthTypeOK, ClientInv, TimeIsOrdered
  <1>3. ScanIsOrdered'
    <2>1. ctxEnded' = ctxEnded
      BY DEF Fetching, GetStep, TakeToken, WaitCancelled, Send, Answer, NextAttempt, BackoffCancelled
    <2>2. get'[Scan] = "idle" => returned'[Scan] # "none"
      <3>1. Scan \in Callers /\ get[Scan] # "idle"
        BY HealthAssumption DEF Fetching, GetStep, TakeToken, WaitCancelled, Send, Answer,
                                NextAttempt, BackoffCancelled
      <3>2. CASE Answer(Scan)
        BY <3>1, <3>2 DEF Answer, AnswersTo, Answers, Retryable, Final, EndGet, ClientInv, ClientTypeOK
      <3>3. CASE WaitCancelled(Scan) \/ BackoffCancelled(Scan)
        BY <3>1, <3>3 DEF WaitCancelled, BackoffCancelled, EndGet, ClientInv, ClientTypeOK
      <3>4. CASE TakeToken(Scan) \/ Send(Scan) \/ NextAttempt(Scan)
        BY <3>1, <3>4 DEF TakeToken, Send, NextAttempt, ClientInv, ClientTypeOK
      <3> QED
        BY <3>2, <3>3, <3>4 DEF Fetching, GetStep
    <2>3. \A t \in Targets : TargetIsOrdered(t)'
      BY <2>1, TargetKept DEF Fetching, healthVars, scanVars
    <2> QED
      BY <2>2, <2>3 DEF Fetching, healthVars, scanVars, ScanIsOrdered, Checkable
  <1> QED
    BY <1>1, <1>2, <1>3, FilesKept DEF Fetching, healthVars

\* So does what goes on around.
LEMMA AroundInv == HealthInv /\ Around => HealthInv'
  <1> SUFFICES ASSUME HealthInv, Around PROVE HealthInv'
    OBVIOUS
  <1> USE DEF HealthInv
  <1>1. ClientInv'
    BY ClientNextInv, HealthAssumption DEF Around, ClientNext
  <1>2. HealthTypeOK' /\ TimeIsOrdered'
    BY <1>1 DEF Around, healthVars, scanVars, HealthTypeOK, ClientInv, TimeIsOrdered
  <1>3. ScanIsOrdered'
    <2>1. ctxEnded \subseteq ctxEnded' /\ UNCHANGED <<get, returned>>
      BY DEF Around, Tick, EndContext
    <2>2. \A t \in Targets : TargetIsOrdered(t)'
      BY <2>1, TargetKept DEF Around, healthVars, scanVars
    <2> QED
      BY <2>1, <2>2 DEF Around, healthVars, scanVars, ScanIsOrdered, Checkable
  <1> QED
    BY <1>1, <1>2, <1>3, FilesKept DEF Around, healthVars

\* The provider returns: a cut check is one of a context that is done.
LEMMA UpdateInv == HealthInv /\ Update => HealthInv'
  <1> SUFFICES ASSUME HealthInv, Update PROVE HealthInv'
    OBVIOUS
  <1> USE DEF HealthInv
  <1> DEFINE cut == returned[Scan] \in {"ctx", "cancelled"}
  <1>1. PICK accepted \in BOOLEAN :
           LET status == Classified(returned[Scan], accepted)
           IN  /\ store' = [store EXCEPT ![current] = Updated(@, status, now)]
               /\ outcome' = [outcome EXCEPT ![current] = IF cut THEN "cut" ELSE status]
    BY DEF Update
  <1> DEFINE status == Classified(returned[Scan], accepted)
  <1>2. /\ status \in Statuses \ {"dormant"}
        /\ cut => status = "unknown"
    BY DEF Classified, Statuses
  <1>3. /\ phase = "fetch" /\ current \in todo /\ current \in Targets
        /\ Checkable(current)
        /\ outcome[current] = "none" /\ store[current] = file[current]
    BY ListedType DEF Update, ScanIsOrdered, HealthTypeOK, TargetIsOrdered, Made
  <1>4. cut => Scan \in ctxEnded
    <2>1. Scan \in Callers /\ get[Scan] = "idle" /\ returned[Scan] # "none"
      BY <1>3, HealthAssumption DEF Update, ScanIsOrdered
    <2> QED
      BY <2>1 DEF ClientInv, LastAnswerReturned, GetIsOrdered, Answers, Retryable
  <1> HIDE DEF status, cut
  <1>5. /\ store' = [store EXCEPT ![current] = Updated(@, status, now)]
        /\ outcome' = [outcome EXCEPT ![current] = IF cut THEN "cut" ELSE status]
    BY <1>1 DEF status
  <1>6. ClientInv'
    BY ClientNextInv DEF Update
  <1>7. HealthTypeOK'
    <2>1. store' \in [Targets -> Records]
      BY <1>2, <1>3, <1>5, RecordTypes DEF HealthTypeOK
    <2>2. outcome' \in [Targets -> Statuses \cup {"none", "cut"}]
      BY <1>2, <1>3, <1>5 DEF HealthTypeOK
    <2>3. todo' \subseteq enabled' \cap Listed(mode') /\ phase' = "scan"
      BY DEF Update, HealthTypeOK
    <2>4. UNCHANGED <<clock, enabled, file, mode, now, current, saved>>
      BY DEF Update
    <2> QED
      BY <1>6, <2>1, <2>2, <2>3, <2>4 DEF HealthTypeOK, ClientInv
  <1>8. TimeIsOrdered'
    BY DEF Update, TimeIsOrdered
  <1>9. ScanIsOrdered'
    <2>1. ASSUME NEW u \in Targets PROVE TargetIsOrdered(u)'
      <3>1. UNCHANGED <<file, enabled, mode, now, current, ctxEnded>> /\ todo' = todo \ {current}
        BY DEF Update, getVars
      <3>2. phase' = "scan"
        BY DEF Update
      <3>3. CASE u = current
        <4>1. store'[u] = Updated(file[u], status, now) /\ outcome'[u] = IF cut THEN "cut" ELSE status
          BY <1>3, <1>5, <3>3 DEF HealthTypeOK
        <4>2. u \in enabled \cap Listed(mode) /\ u \notin todo'
          BY <1>3, <3>1, <3>3 DEF HealthTypeOK
        <4>3. outcome'[u] \notin {"none", "dormant"}
          BY <1>2, <4>1 DEF Statuses
        <4>4. Made(u)' = Updated(file[u], status, now)
          BY <1>2, <3>1, <4>1, <4>3 DEF Made, Statuses
        <4> QED
          BY <1>2, <1>3, <1>4, <3>1, <3>2, <3>3, <4>1, <4>2, <4>3, <4>4
          DEF TargetIsOrdered, Statuses, Checkable
      <3>4. CASE u # current
        <4>1. store'[u] = store[u] /\ outcome'[u] = outcome[u] /\ (u \in todo <=> u \in todo')
          BY <1>3, <1>5, <3>1, <3>4 DEF HealthTypeOK
        <4>2. TargetIsOrdered(u)
          BY DEF ScanIsOrdered
        <4> QED
          BY <1>3, <3>1, <3>2, <4>1, <4>2 DEF TargetIsOrdered, Made, Checkable
      <3> QED
        BY <3>3, <3>4
    <2>2. phase = "fetch" /\ phase' = "scan" /\ mode' = mode /\ get'[Scan] = "idle"
      BY <1>3 DEF Update, getVars
    <2> QED
      BY <2>1, <2>2 DEF ScanIsOrdered
  <1> QED
    BY <1>6, <1>7, <1>8, <1>9, FilesKept DEF Update

-----------------------------------------------------------------------------
\* Whatever a process leaves in the file, it takes its client and its work with it.
LEMMA EndKeeps ==
    ASSUME HealthInv, phase # "down", End, store' = file',
           file' \in [Targets -> Records], saved' \in [Targets -> Histories],
           \A t \in Targets : saved'[t].checked <= now,
           \A t \in Targets : Agree(file'[t], saved'[t])
    PROVE  HealthInv'
  <1> USE DEF HealthInv
  <1>1. ClientInv'
    <2>1. ClientInit'
      BY DEF End, ClientInit
    <2> QED
      BY <2>1, ClientInitInv, PTL
  <1>2. HealthTypeOK'
    <2>1. outcome' \in [Targets -> Statuses \cup {"none", "cut"}]
      BY DEF End, Nothing
    <2> QED
      BY <1>1, <2>1 DEF End, HealthTypeOK, ClientInv, Histories
  <1>3. TimeIsOrdered'
    BY DEF End, TimeIsOrdered
  <1>4. ScanIsOrdered'
    <2>1. \A t \in Targets : TargetIsOrdered(t)'
      BY DEF End, TargetIsOrdered, Made, Nothing
    <2>2. get'[Scan] = "idle"
      BY HealthAssumption DEF End
    <2> QED
      BY <2>1, <2>2 DEF End, ScanIsOrdered
  <1>5. (RecordsTellWhatWasSaved /\ DormancyIsEarned /\ HistoryIsSound)'
    BY DEF RecordsTellWhatWasSaved, DormancyIsEarned, HistoryIsSound, Agree
  <1> QED
    BY <1>1, <1>2, <1>3, <1>4, <1>5

\* A process that is cancelled or dies leaves the file as it was.
LEMMA DropInv ==
    ASSUME HealthInv, phase # "down", End, store' = file, UNCHANGED <<file, saved>>
    PROVE  HealthInv'
  <1>1. file' \in [Targets -> Records] /\ saved' \in [Targets -> Histories]
    BY DEF HealthInv, HealthTypeOK, Histories
  <1>2. \A t \in Targets : saved'[t].checked <= now
    BY DEF HealthInv, TimeIsOrdered
  <1>3. \A t \in Targets : Agree(file'[t], saved'[t])
    BY AgreeIsInv DEF HealthInv
  <1> QED
    BY <1>1, <1>2, <1>3, EndKeeps

\* What a saved scan has made of a record agrees with what it adds to the history.
LEMMA SavedAgree ==
    ASSUME HealthInv, phase = "scan", NEW t \in Targets
    PROVE  /\ store[t] \in Records
           /\ SavedNow(saved[t], outcome[t]) \in Histories
           /\ SavedNow(saved[t], outcome[t]).checked <= now
           /\ Agree(store[t], SavedNow(saved[t], outcome[t]))
  <1> DEFINE r == file[t]
             h == saved[t]
             o == outcome[t]
             g == SavedNow(h, o)
  <1>1. /\ r \in Records /\ h \in Histories /\ store[t] \in Records
        /\ h.checked \in Nat /\ h.success \in Nat /\ h.dormant \in Nat
        /\ now \in Nat /\ now \in Times /\ h.checked < now
        /\ o \in Statuses \cup {"none", "cut"}
        /\ Never = 0 /\ DormantAfter \in Nat \ {0}
    <2>1. h \in Histories /\ h.success \in Nat /\ h.dormant \in Nat
      BY TimesType DEF HealthInv, HealthTypeOK, Histories
    <2> QED
      BY <2>1, TimesType, TimeTypes DEF HealthInv, HealthTypeOK, TimeIsOrdered
  <1>2. Agree(r, h)
    BY AgreeIsInv DEF HealthInv
  <1>3. /\ store[t] = Made(t)
        /\ o = "dormant" => ShouldDormant(r, now)
        /\ o \notin {"none", "dormant"} => ~ShouldDormant(r, now)
    BY DEF HealthInv, ScanIsOrdered, TargetIsOrdered, Checkable
  <1>4. CASE o = "none"
    <2>1. g = h /\ store[t] = r
      BY <1>3, <1>4 DEF SavedNow, Made
    <2> QED
      BY <1>1, <1>2, <2>1
  <1>5. CASE o = "dormant"
    <2>1. store[t] = Dormant(r, now) /\ ShouldDormant(r, now)
      BY <1>3, <1>5 DEF Made
    <2>2. CASE r.status = "dormant"
      <3>1. g = h
        BY <1>2, <1>5, <2>2 DEF SavedNow, Agree
      <3>2. /\ store[t].status = "dormant" /\ store[t].success = r.success
            /\ store[t].failures = r.failures
        BY <1>1, <2>1 DEF Dormant, Records
      <3> QED
        BY <1>1, <1>2, <2>2, <3>1, <3>2 DEF Agree
    <2>3. CASE r.status # "dormant"
      <3>1. g = [h EXCEPT !.dormant = now]
        BY <1>2, <1>5, <2>3 DEF SavedNow, Agree
      <3>2. /\ g \in Histories /\ g.success = h.success /\ g.checked = h.checked
            /\ g.fails = h.fails /\ g.dormant = now
        BY <1>1, <3>1 DEF Histories
      <3>3. /\ store[t].status = "dormant" /\ store[t].success = r.success
            /\ store[t].failures = r.failures
        BY <1>1, <2>1 DEF Dormant, Records
      <3>4. /\ r.success = h.success /\ r.checked = h.checked /\ r.failures = h.fails
            /\ h.success # Never => h.checked # Never
        BY <1>2, <2>3 DEF Agree
      <3>5. IF h.success # Never THEN h.success < now - DormantAfter
                                 ELSE h.checked # Never /\ h.checked < now - DormantAfter
        BY <2>1, <2>3, <3>4 DEF ShouldDormant
      <3>6. now # Never
        BY <1>1
      <3> QED
        BY <1>1, <3>2, <3>3, <3>4, <3>5, <3>6 DEF Agree
    <2> QED
      BY <2>2, <2>3
  <1>6. CASE o \notin {"none", "dormant"}
    <2> DEFINE s == IF o = "cut" THEN "unknown" ELSE o
    <2>1. store[t] = Updated(r, s, now) /\ s \in Statuses \ {"dormant"}
      BY <1>1, <1>3, <1>6 DEF Made, Statuses
    <2>2. r.status # "dormant" /\ h.dormant = Never
      BY <1>2, <1>3, <1>6 DEF Agree, ShouldDormant
    <2>3. /\ g \in Histories /\ g.checked = now /\ g.dormant = h.dormant
          /\ g.success = (IF s = "active" THEN now ELSE h.success)
          /\ g.fails = (IF s = "unknown" THEN h.fails + 1 ELSE 0)
      <3>1. g = CASE s = "active"  -> [h EXCEPT !.success = now, !.checked = now, !.fails = 0]
                  [] s = "unknown" -> [h EXCEPT !.checked = now, !.fails = @ + 1]
                  [] OTHER         -> [h EXCEPT !.checked = now, !.fails = 0]
        BY <1>6 DEF SavedNow
      <3>2. h.fails \in Nat /\ h \in [success : Times, checked : Times, fails : Nat, dormant : Times]
        BY <1>1 DEF Histories
      <3>3. CASE s = "active"
        <4>1. g = [h EXCEPT !.success = now, !.checked = now, !.fails = 0]
          BY <3>1, <3>3
        <4> HIDE DEF g, h, s
        <4> QED
          BY <1>1, <3>2, <3>3, <4>1 DEF Histories
      <3>4. CASE s = "unknown"
        <4>1. g = [h EXCEPT !.checked = now, !.fails = @ + 1]
          BY <3>1, <3>4
        <4> HIDE DEF g, h, s
        <4> DEFINE n == h.fails + 1
        <4>2. n \in Nat /\ g = [h EXCEPT !.checked = now, !.fails = n]
          BY <3>2, <4>1
        <4> HIDE DEF n
        <4>3. g \in Histories /\ g.checked = now /\ g.dormant = h.dormant
              /\ g.success = h.success /\ g.fails = n
          BY <1>1, <3>2, <4>2 DEF Histories
        <4> QED
          BY <3>4, <4>3 DEF n
      <3>5. CASE s \notin {"active", "unknown"}
        <4>1. g = [h EXCEPT !.checked = now, !.fails = 0]
          BY <3>1, <3>5
        <4> HIDE DEF g, h, s
        <4> QED
          BY <1>1, <3>2, <3>5, <4>1 DEF Histories
      <3> QED
        BY <3>3, <3>4, <3>5
    <2>4. /\ store[t].status = s /\ store[t].checked = now
          /\ store[t].success = (IF s = "active" THEN now ELSE r.success)
          /\ store[t].failures = (IF s = "unknown" THEN r.failures + 1 ELSE 0)
      BY <2>1 DEF Updated
    <2>5. r.success = h.success /\ r.failures = h.fails
      BY <1>2 DEF Agree
    <2> HIDE DEF s
    <2> QED
      BY <1>1, <2>1, <2>2, <2>3, <2>4, <2>5 DEF Agree
  <1> QED
    BY <1>4, <1>5, <1>6

\* A scan that is over saves what it has made.
LEMMA SaveInv == HealthInv /\ Save => HealthInv'
  <1> SUFFICES ASSUME HealthInv, Save PROVE HealthInv'
    OBVIOUS
  <1>1. /\ phase = "scan" /\ End /\ store' = file' /\ file' = store
        /\ saved' = [t \in Targets |-> SavedNow(saved[t], outcome[t])]
    BY DEF Save
  <1>2. file' \in [Targets -> Records]
    BY <1>1 DEF HealthInv, HealthTypeOK
  <1>3. saved' \in [Targets -> Histories]
    BY <1>1, SavedAgree
  <1>4. \A t \in Targets : saved'[t].checked <= now /\ Agree(file'[t], saved'[t])
    BY <1>1, SavedAgree
  <1> QED
    BY <1>1, <1>2, <1>3, <1>4, EndKeeps

-----------------------------------------------------------------------------
\* The invariant is inductive.
LEMMA HealthNextInv == HealthInv /\ [HealthNext]_allVars => HealthInv'
  <1> SUFFICES ASSUME HealthInv, [HealthNext]_allVars PROVE HealthInv'
    OBVIOUS
  <1>1. CASE UNCHANGED allVars
    <2>1. ClientInv'
      BY <1>1, ClientNextInv DEF allVars, HealthInv
    <2>2. HealthTypeOK' /\ TimeIsOrdered'
      BY <1>1, <2>1 DEF allVars, healthVars, scanVars, HealthInv, ClientInv, HealthTypeOK, TimeIsOrdered
    <2>3. \A t \in Targets : TargetIsOrdered(t)'
      BY <1>1, TargetKept DEF allVars, healthVars, scanVars, getVars
    <2>4. ScanIsOrdered'
      BY <1>1, <2>3 DEF allVars, healthVars, scanVars, getVars, HealthInv, ScanIsOrdered, Checkable
    <2> QED
      BY <1>1, <2>1, <2>2, <2>4, FilesKept DEF allVars, healthVars, HealthInv
  <1>2. CASE Crash \/ Cancelled
    <2>1. phase # "down" /\ End /\ store' = file /\ UNCHANGED <<file, saved>>
      BY <1>2 DEF Crash, Cancelled, ToCheck
    <2> QED
      BY <2>1, DropInv
  <1>3. CASE Later \/ Around \/ Fetching \/ Update \/ Save
    BY <1>3, LaterInv, AroundInv, FetchingInv, UpdateInv, SaveInv
  <1>4. ASSUME NEW t \in Targets, SkipDormant(t) \/ SkipHealthy(t) \/ Fetch(t) \/ Edit(t)
        PROVE  HealthInv'
    BY <1>4, SkipDormantInv, SkipHealthyInv, FetchInv, EditInv
  <1>5. ASSUME NEW m \in {"channels", "revive", "sources"}, Begin(m)
        PROVE  HealthInv'
    BY <1>5, BeginInv
  <1> QED
    BY <1>1, <1>2, <1>3, <1>4, <1>5 DEF HealthNext, Step

\* The reachable states satisfy the inductive invariant.
THEOREM HealthInvariant == HealthSpec => []HealthInv
  BY HealthInitInv, HealthNextInv, PTL DEF HealthSpec

\* The ranges of the variables of a scan and its client are kept.
THEOREM HealthTypes == HealthSpec => []HealthTypeOK
  BY HealthInvariant, PTL DEF HealthInv

\* Whatever scans are cancelled or crash, the file has the last success and the
\* failures since the last answer that the saved ones saw.
THEOREM HealthRecords == HealthSpec => []RecordsTellWhatWasSaved
  BY HealthInvariant, PTL DEF HealthInv

\* For every DormantAfterDays, a target that is dormant has failed for that long.
THEOREM HealthDormancy == HealthSpec => []DormancyIsEarned
  BY HealthInvariant, PTL DEF HealthInv

\* Of any number of targets, a cancelled scan may take one for failing, the one that
\* it was checking.
THEOREM HealthCut == HealthSpec => []OneResultIsCut
  <1> DEFINE Cut == {t \in Targets : outcome[t] = "cut"}
  <1>1. HealthInv => OneResultIsCut
    <2> SUFFICES ASSUME HealthInv PROVE OneResultIsCut
      OBVIOUS
    <2>1. \A t \in Cut : Scan \in ctxEnded /\ t = current
      BY DEF HealthInv, ScanIsOrdered, TargetIsOrdered, Checkable
    <2>2. Cut \subseteq {current}
      BY <2>1
    <2>3. IsFiniteSet({current}) /\ Cardinality({current}) = 1
      BY FS_Singleton
    <2>4. Cardinality(Cut) <= 1
      BY <2>2, <2>3, FS_Subset
    <2> QED
      BY <2>1, <2>4 DEF OneResultIsCut
  <1> QED
    BY <1>1, HealthInvariant, PTL

\* A step of a scan that is no save changes no file.
LEMMA OnlySaveWrites == HealthNext /\ file' # file => Save
  BY DEF HealthNext, Later, Around, healthVars, Crash, Step, SkipDormant, SkipHealthy, Fetch,
         Fetching, Update, Cancelled, Edit, Begin

\* No scan of any list, revival or not, takes a target out of dormancy.
THEOREM HealthDormantForEver == HealthSpec => DormantForEver
  <1> DEFINE Kept == \A t \in Targets : file[t].status = "dormant" => file'[t].status = "dormant"
  <1>1. HealthInv /\ [HealthNext]_allVars => [Kept]_allVars
    <2> SUFFICES ASSUME HealthInv, HealthNext PROVE Kept
      BY DEF allVars
    <2>1. CASE file' = file
      BY <2>1
    <2>2. CASE file' # file
      <3>1. file' = store /\ now \in Times
        BY <2>2, OnlySaveWrites DEF Save, HealthInv, HealthTypeOK
      <3>2. ASSUME NEW t \in Targets, file[t].status = "dormant"
            PROVE  store[t].status = "dormant"
        <4>1. store[t] = Made(t) /\ outcome[t] \in {"none", "dormant"}
          BY <3>2 DEF HealthInv, ScanIsOrdered, TargetIsOrdered, Checkable, ShouldDormant
        <4>2. file[t] \in Records
          BY DEF HealthInv, HealthTypeOK
        <4> QED
          BY <3>2, <4>1, <4>2 DEF Made, Dormant, Records
      <3> QED
        BY <3>1, <3>2
    <2> QED
      BY <2>1, <2>2
  <1> QED
    BY <1>1, HealthInvariant, PTL DEF HealthSpec, DormantForEver

\* A scan that is saved has gone through its list, whatever its order, and through
\* nothing else.
THEOREM HealthCoversItsList == HealthSpec => ScanCoversItsList
  <1> DEFINE Due(t) == t \in enabled \cap Listed(mode)
                        /\ (mode = "revive" => Revivable(file[t]) \/ file'[t].status = "dormant")
             Covers == file' # file =>
                          \A t \in Targets : IF Due(t) THEN file'[t].checked = now
                                                      ELSE file'[t] = file[t]
  <1>1. HealthInv /\ [HealthNext]_allVars => [Covers]_allVars
    <2> SUFFICES ASSUME HealthInv, HealthNext, file' # file, NEW t \in Targets
                 PROVE  IF Due(t) THEN file'[t].checked = now ELSE file'[t] = file[t]
      BY DEF allVars
    <2>1. phase = "scan" /\ todo = {} /\ file' = store
      BY OnlySaveWrites DEF Save
    <2>2. TargetIsOrdered(t) /\ file[t] \in Records /\ outcome[t] \in Statuses \cup {"none", "cut"}
      BY DEF HealthInv, ScanIsOrdered, HealthTypeOK
    <2>3. CASE outcome[t] = "none"
      <3>1. file'[t] = file[t]
        BY <2>1, <2>2, <2>3 DEF TargetIsOrdered, Made
      <3>2. ~Due(t)
        BY <2>1, <2>2, <2>3, <3>1 DEF TargetIsOrdered, ShouldDormant
      <3> QED
        BY <3>1, <3>2
    <2>4. CASE outcome[t] # "none"
      <3>1. file'[t].checked = now
        BY <2>1, <2>2, <2>4 DEF TargetIsOrdered, Made, Dormant, Updated, Records
      <3>2. Due(t)
        BY <2>1, <2>2, <2>4 DEF TargetIsOrdered, Made, Checkable, Dormant, Records
      <3> QED
        BY <3>1, <3>2
    <2> QED
      BY <2>3, <2>4
  <1> QED
    BY <1>1, HealthInvariant, PTL DEF HealthSpec, ScanCoversItsList

\* What a scan has made of a record is one step of RecordBook, whatever the provider
\* answered.
LEMMA MadeIsOneCheck ==
  ASSUME HealthInv, phase = "scan", NEW t \in Targets
  PROVE  \/ store[t] = file[t]
         \/ Book!FallsDormant(file[t], store[t], now)
         \/ Book!IsChecked(file[t], store[t], now)
  <1>1. TargetIsOrdered(t) /\ file[t] \in Records
          /\ outcome[t] \in Statuses \cup {"none", "cut"} /\ now \in Times
    BY DEF HealthInv, ScanIsOrdered, HealthTypeOK
  <1>2. store[t] = Made(t)
    BY <1>1 DEF TargetIsOrdered
  <1>3. ShouldDormant(file[t], now) <=> Book!Due(file[t], now)
    BY <1>1 DEF ShouldDormant, Book!Due, Book!Silent, Never
  <1>4. CASE outcome[t] = "none"
    BY <1>2, <1>4 DEF Made
  <1>5. CASE outcome[t] = "dormant"
    BY <1>1, <1>2, <1>3, <1>5 DEF Made, TargetIsOrdered, Dormant, Records, Book!FallsDormant
  <1>6. CASE outcome[t] \in {"active", "inactive", "not_found", "unknown", "cut"}
    <2>1. ~Book!Due(file[t], now)
      BY <1>1, <1>3, <1>6 DEF TargetIsOrdered, Checkable
    <2> DEFINE status == IF outcome[t] = "cut" THEN "unknown" ELSE outcome[t]
    <2>2. store[t] = Updated(file[t], status, now)
      BY <1>2, <1>6 DEF Made
    <2>3. status \in {"active", "inactive", "not_found", "unknown"}
      BY <1>6
    <2> QED
      BY <2>1, <2>2, <2>3 DEF Updated, Book!IsChecked
  <1> QED
    BY <1>1, <1>4, <1>5, <1>6 DEF Statuses

\* The scans are transactions on the records: each is one step of RecordBook or none,
\* wherever it is cancelled or dies, and every step before its end is invisible.
THEOREM HealthIsTransactional == HealthSpec => ImplementsRecordBook
  <1>1. HealthInit => Book!SInit
    BY DEF HealthInit, NoRecord, Never, Book!SInit, Book!NoRecord
  <1>2. HealthInv /\ [HealthNext]_allVars => [Book!SNext]_(Book!svars)
    <2> SUFFICES ASSUME HealthInv, [HealthNext]_allVars
                 PROVE  [Book!SNext]_(Book!svars)
      OBVIOUS
    <2> DEFINE Hidden == UNCHANGED <<file, now>> /\ (phase' # "down" <=> phase # "down")
    <2>1. ASSUME NEW t \in Targets, SkipDormant(t) \/ SkipHealthy(t) \/ Fetch(t) \/ Edit(t)
          PROVE  Hidden
      BY <2>1 DEF SkipDormant, SkipHealthy, Fetch, ToCheck, Edit, scanVars
    <2>2. Later \/ Around \/ Fetching \/ Update \/ UNCHANGED allVars => Hidden
      BY DEF Later, Around, Fetching, Update, healthVars, scanVars, allVars
    <2>3. Crash \/ Cancelled => Book!Abort
      <3>1. Cancelled => phase # "down"
        BY DEF Cancelled, ToCheck
      <3> QED
        BY <3>1 DEF Crash, Cancelled, End, Book!Abort
    <2>4. ASSUME NEW m, Begin(m) PROVE Book!Begin
      <3>1. now \in Times /\ clock \in 1 .. MaxClock
        BY DEF HealthInv, HealthTypeOK
      <3> QED
        BY <2>4, <3>1 DEF Begin, Book!Begin, Times, Never
    <2>5. Save => Book!Commit
      <3> SUFFICES ASSUME Save PROVE Book!Commit
        OBVIOUS
      <3>1. phase = "scan" /\ phase' = "down" /\ file' = store /\ now' = now
        BY DEF Save, End
      <3>2. \A t \in Targets : \/ file'[t] = file[t]
                              \/ Book!FallsDormant(file[t], file'[t], now)
                              \/ Book!IsChecked(file[t], file'[t], now)
        BY <3>1, MadeIsOneCheck
      <3> QED
        BY <3>1, <3>2 DEF Book!Commit
    <2>6. Hidden => [Book!SNext]_(Book!svars)
      BY DEF Book!svars
    <2> QED
      BY <2>1, <2>2, <2>3, <2>4, <2>5, <2>6 DEF HealthNext, Step, Book!SNext
  <1> QED
    BY <1>1, <1>2, HealthInvariant, PTL DEF HealthSpec, ImplementsRecordBook, Book!SSpec
=============================================================================
