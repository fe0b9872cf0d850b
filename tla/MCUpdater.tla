------------------------------ MODULE MCUpdater ------------------------------
(* What TLC needs to check Updater: contents of which two have the same    *)
(* hash, and URLs that have the same file, or each its own.                *)
EXTENDS Updater, TLC

MCHashOf    == [c \in Contents |-> IF c = "a" THEN "h" ELSE "k"]
MCOneFile   == [u \in Urls |-> "file"]
MCOwnFiles  == [u \in Urls |-> u]
UrlSymmetry == Permutations(Urls)
=============================================================================
