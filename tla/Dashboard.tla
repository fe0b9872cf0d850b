------------------------------ MODULE Dashboard ------------------------------
(***************************************************************************)
(* internal/web beside a collector that publishes: the requests for the    *)
(* statistics, each in a goroutine of its own, which fill a cache that     *)
(* none of them locks and nothing empties; and a client that goes through  *)
(* the list of configs page by page.                                       *)
(***************************************************************************)
EXTENDS Naturals, Sequences, FiniteSets, SequencesExt

CONSTANTS Fingerprints, \* the configs, which are numbers: their order breaks ties
          PageSize,     \* the limit of the client
          Requests,     \* the requests for statistics
          MaxPublish    \* bound on what the collector publishes

ASSUME DashboardAssumption ==
    /\ Fingerprints \subseteq Nat /\ IsFiniteSet(Fingerprints)
    /\ PageSize \in Nat \ {0}
    /\ MaxPublish \in Nat

VARIABLES
    lastSeen,  \* configs.json: when each config was last seen, 0 if it is not there
    published, \* the number of times that the collector has written it
    offset,    \* of the client's next page
    pages,     \* what the client has seen
    total,     \* the X-Total-Count of its last page
    began,     \* history: the lastSeen when the client began
    since,     \* history: what was published since, "nothing", "more" or "less"
    stats,     \* cache["stats"]: the version of the state it counts, 0 if there is none
    request,   \* of each: "new", "read", "store", "storing" or "served"
    version,   \* the version of the state it has read, or been served
    server     \* "up" or, by a data race, "crashed"

pagingVars  == <<offset, pages, total, began, since>>
statsVars   == <<stats, request, version>>
stateVars   == <<lastSeen, published>>
dashVars    == <<pagingVars, statsVars, stateVars, server>>

DashInit ==
    /\ lastSeen = [f \in Fingerprints |-> 0]
    /\ published = 1
    /\ offset = 0 /\ pages = <<>> /\ total = 0 /\ began = lastSeen /\ since = "nothing"
    /\ stats = 0
    /\ request = [r \in Requests |-> "new"]
    /\ version = [r \in Requests |-> 0]
    /\ server = "up"

\* loadEntries: the most recently seen first.
Listed(seen) == {f \in Fingerprints : seen[f] > 0}
Before(seen, f, g) == seen[f] > seen[g] \/ (seen[f] = seen[g] /\ f < g)

\* How many are listed before it; the entries are the configs in this order.
Rank(seen, f) == Cardinality({g \in Listed(seen) : Before(seen, g, f)})
Entries(seen) == [i \in 1..Cardinality(Listed(seen)) |-> CHOOSE f \in Listed(seen) : Rank(seen, f) = i - 1]

\* The collector replaces configs.json: it has seen some configs again or for the
\* first time, and others have left (at the end of a day).
Publish ==
    /\ published < MaxPublish
    /\ published' = published + 1
    /\ \E seen \in SUBSET Fingerprints, left \in SUBSET Fingerprints :
          /\ lastSeen' = [f \in Fingerprints |->
                 IF f \in seen THEN published' ELSE IF f \in left THEN 0 ELSE lastSeen[f]]
          /\ since' = IF since = "less" \/ Listed(lastSeen) \ Listed(lastSeen') # {}
                      THEN "less" ELSE "more"
    /\ UNCHANGED <<offset, pages, total, began, statsVars, server>>

\* Mutant: the last one is on the next page as well.
PageInclusive(entries, from) ==
    SubSeq(entries, from + 1,
           IF from + PageSize + 1 > Len(entries) THEN Len(entries) ELSE from + PageSize + 1)

\* GetConfigs: the entries from an offset, no more than the limit.
Page(entries, from) ==
    SubSeq(entries, from + 1,
           IF from + PageSize > Len(entries) THEN Len(entries) ELSE from + PageSize)

\* The client asks for the next page until it has passed the total.
GetPage ==
    /\ server = "up"
    /\ offset = 0 \/ offset < total
    /\ pages' = pages \o Page(Entries(lastSeen), offset)
    /\ total' = Cardinality(Listed(lastSeen))
    /\ offset' = offset + PageSize
    /\ IF offset = 0 THEN began' = lastSeen /\ since' = "nothing" ELSE UNCHANGED <<began, since>>
    /\ UNCHANGED <<statsVars, stateVars, server>>

AllPages == offset > 0 /\ offset >= total

\* Go ends a program that it sees use a map while another goroutine writes it.
Racing(r) == \E o \in Requests \ {r} : request[o] = "storing"

Access(r, step) ==
    /\ server = "up"
    /\ \/ step /\ UNCHANGED server
       \/ /\ Racing(r)
          /\ server' = "crashed"
          /\ UNCHANGED statsVars
    /\ UNCHANGED <<pagingVars, stateVars>>

\* GetStats looks into the cache, ...
Arrive(r) ==
    /\ request[r] = "new"
    /\ Access(r, /\ request' = [request EXCEPT ![r] = IF stats # 0 THEN "served" ELSE "read"]
                 /\ version' = [version EXCEPT ![r] = stats]
                 /\ UNCHANGED stats)

\* ... reads the state, or fails to and caches nothing, ...
ReadState(r) ==
    /\ server = "up"
    /\ request[r] = "read"
    /\ \/ /\ request' = [request EXCEPT ![r] = "store"]
          /\ version' = [version EXCEPT ![r] = published]
       \/ /\ request' = [request EXCEPT ![r] = "served"]
          /\ UNCHANGED version
    /\ UNCHANGED <<pagingVars, stateVars, stats, server>>

\* ... and stores what it has counted.
BeginStore(r) ==
    /\ request[r] = "store"
    /\ Access(r, request' = [request EXCEPT ![r] = "storing"] /\ UNCHANGED <<stats, version>>)

EndStore(r) ==
    /\ server = "up"
    /\ request[r] = "storing"
    /\ stats' = version[r]
    /\ request' = [request EXCEPT ![r] = "served"]
    /\ UNCHANGED <<pagingVars, stateVars, version, server>>

DashNext ==
    \/ Publish \/ GetPage
    \/ \E r \in Requests : Arrive(r) \/ ReadState(r) \/ BeginStore(r) \/ EndStore(r)

DashSpec == DashInit /\ [][DashNext]_dashVars

(***************************************************************************)
(* Properties.                                                             *)
(***************************************************************************)
\* A client that goes through the pages sees the list when nothing is published
\* on the way (api.go:243: "The order is deterministic so pagination stays stable
\* between requests").  Otherwise, unless a config leaves, it still sees every
\* one that was listed when it began and has not been seen again since.
PagesShowTheList ==
    AllPages =>
        /\ since = "nothing" => pages = Entries(began)
        /\ since # "less" =>
               \A f \in Listed(began) : lastSeen[f] = began[f] => f \in Range(pages)
==============================================================================
