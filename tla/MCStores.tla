------------------------------ MODULE MCStores ------------------------------
(* The two stores of the collector, the candidates and the archive of the    *)
(* configs, checked in one run: a behavior is about one of them.             *)
EXTENDS MCPromotion, DailyArchive

VARIABLE subject

OfPromotion(step) == subject = "promotion" /\ step /\ UNCHANGED <<subject, archiveVars>>
OfArchive(step)   == subject = "archive" /\ step /\ UNCHANGED <<subject, vars>>

StoresInit ==
    /\ subject \in {"promotion", "archive"}
    /\ Init /\ ArchiveInit
    /\ subject = "archive" => listed = {}

StoresNext == OfPromotion(Next) \/ OfArchive(ArchiveNext)
StoresSpec == StoresInit /\ [][StoresNext]_<<subject, vars, archiveVars>>
=============================================================================
