------------------------------ MODULE MCNetwork ------------------------------
(* The phase of fetches, the client that a fetch calls, and the proxies that  *)
(* a tester dials, checked in one run: a behavior is about one of them.       *)
EXTENDS FetchPhase, FetchClient, ProxyStream

VARIABLE subject

OfFetches(step) == subject = "fetches" /\ step /\ UNCHANGED <<subject, getVars, tunnelVars>>
OfClient(step)  == subject = "client" /\ step /\ UNCHANGED <<subject, allVars, tunnelVars>>
OfProxy(step)   == subject = "proxy" /\ step /\ UNCHANGED <<subject, allVars, getVars>>

NetworkVars == <<subject, allVars, getVars, tunnelVars>>

NetworkInit ==
    /\ subject \in {"fetches", "client", "proxy"}
    /\ FetchInit /\ ClientInit /\ TunnelInit
    /\ subject # "proxy" => ~timed

NetworkNext ==
    \/ OfFetches(FetchNext)
    \/ OfClient(ClientNext)
    \/ OfProxy((DialNext /\ UNCHANGED streamVars) \/ StreamNext)

\* The fairness that each states of itself.
NetworkSpec ==
    /\ NetworkInit
    /\ [][NetworkNext]_NetworkVars
    /\ WF_NetworkVars(OfFetches(Collect))
    /\ \A w \in WorkerIds : WF_NetworkVars(OfFetches(Worker(w)))
    /\ WF_NetworkVars(OfClient(Tick))
    /\ \A c \in Callers : WF_NetworkVars(OfClient(GetStep(c)))
    /\ WF_NetworkVars(OfProxy(Dialing /\ UNCHANGED streamVars))

\* Collect gets through the phase of fetches (collect.go:81 to 106).
FetchesEnd == subject = "fetches" => CollectEnds
=============================================================================
